---- MODULE Spec2Model ----
(***************************************************************************)
(* Articulation derivation for one chord:                                  *)
(* ChordArticulationsParser::buildChordArticulationMap and its sub-parsers *)
(* (engraving/playback/metaparsers/chordarticulationsparser.cpp).          *)
(*                                                                         *)
(* The caller first prepares the chord, the score's spanner map, the        *)
(* context, the profile and the map to build into, one change of the plain *)
(* input at a time.  The build is then a run of the guard, the eight       *)
(* sub-parsers of doParse in their order, the occupied-range loop and      *)
(* preCalculateAverageData, each one step.                                 *)
(***************************************************************************)
EXTENDS Integers, Sequences, FiniteSets, TLC

VARIABLES
    chord,        \* the chord handed to the build (NoItem: a null pointer)
    ctx,          \* the RenderingContext handed to the build
    spannerMap,   \* ctx.score->spannerMap(): the score's spanners, in index order
    profile,      \* ctx.profile: the articulation types with a non-empty pattern
    result0,      \* the ArticulationMap as it was passed in
    result,       \* the ArticulationMap being built
    features,     \* the number of changes the caller has made to the plain input
    pc,           \* position of the build
    handed,       \* the spanners handed to SpannersMetaParser::parse, in order
    calls,        \* the calls made by the build so far, in order
    other,        \* a second build over the same score and profile: its position,
                  \* chord, context and map
    wrappers,     \* the apiv1::Part wrappers created so far: part and m_mixerChannel
    channels,     \* the MixerChannel objects created so far: the m_trackId of each
    cache,        \* MixerChannel::s_mixerChannelCache: pairs <<key, channel>>
    handedOut,    \* what Part::mixerChannel has returned so far: part and channel
    m_trackSoloMuteStatesMap,    \* NotationSoloMuteState: the state stored for each
                                 \* track, if any
    m_trackSoloMuteStateChanged, \* the last operation on the store, with the entry
                                 \* it found and the notifications it sent
    audioSettings,               \* the audio settings JSON file of the notation
    globalContext,               \* IGlobalContext as the channel finds it: whether
                                 \* it resolves, the current notation, the master's
                                 \* part list and the parts of the excerpt
    env,          \* what playback(), currentSequenceId() and audioTrackId() return
    mixer,        \* the members of one MixerChannel
    sounds,       \* s_cachedAvailableSounds and s_availableSoundsCacheValid, and
                  \* for comparison the list availableSounds() returned last
    async,        \* the channel's promises in flight and its subscription
    audio,        \* the input parameters the audio system holds for the track
    out           \* the last operation on the channel: its name, the argument of
                  \* a setter of output parameters, the value returned and what
                  \* was sent to the audio system

\* the state of the build
build == <<chord, ctx, spannerMap, profile, result0, result, features, pc, handed, calls>>

\* the state outside the build
\* the state of the MixerChannel and of what it talks to
mixerState == <<env, mixer, sounds, async, audio, out>>

\* the solo/mute store of a notation
soloMute ==
    <<m_trackSoloMuteStatesMap, m_trackSoloMuteStateChanged, audioSettings, globalContext>>

\* the state outside the build
outside == <<other, wrappers, channels, cache, handedOut, mixerState, soloMute>>

vars == <<build, outside>>

----------------------------------------------------------------------------
(* Bounds of the model *)

\* ticks of the score run over 0..MaxTick
MaxTick == 4
\* each score has the parts with ids 1..MaxParts
MaxParts == 2
\* a plugin creates at most MaxWrappers Part wrappers
MaxWrappers == 3
\* the largest positionTickOffset of a context
MaxOffset == 1
\* the caller changes the plain input (PlainInput) in at most MaxFeatures
\* respects (an ornament, a spanner, a missing pattern, ...)
MaxFeatures == 2

----------------------------------------------------------------------------
(* Helpers *)

\* the tremolo type parseTremolo has when it returns early
NoItem == "none"

Min(a, b) == IF a < b THEN a ELSE b
Max(a, b) == IF a > b THEN a ELSE b

----------------------------------------------------------------------------
(* mpe types: articulation types, patterns, ArticulationMeta, ArticulationMap *)

Undefined == "Undefined"

\* the types of directives that span several notes (spanners)
MultiNoteTypes == {"Legato", "Pedal"}

\* the types of directives whose duration is that of a single note
SingleNoteTypes ==
    {"Tremolo8th", "Tremolo16th", "Tremolo32nd", "Tremolo64th", "TremoloBuzz",
     "LeftHandTapping", "RightHandTapping", "Arpeggio", "Fall", "Staccato",
     "Pizzicato"}

ArticulationTypes == MultiNoteTypes \cup SingleNoteTypes

isSingleNoteArticulation(type) == type \notin MultiNoteTypes

\* the full range of a duration_percentage_t: the spec's fraction 1
HUNDRED_PERCENT == 10000

\* clampedFraction(delta, duration) = clamp(delta / duration, 0, 1), 0 when duration <= 0
occupiedPercentage(delta, overallDuration) ==
    IF overallDuration <= 0 THEN 0
    ELSE Max(0, Min(HUNDRED_PERCENT, (delta * HUNDRED_PERCENT) \div overallDuration))

\* ctx.profile->pattern(type): the control points of a type, possibly empty
pattern(type) == IF type \in profile THEN <<type>> ELSE <<>>

\* ArticulationMeta(type, pattern, timestamp, overallDuration); the occupied
\* range of a new entry is unset
ArticulationMeta(type, pat, timestamp, overallDuration) ==
    [type |-> type, pattern |-> pat, timestamp |-> timestamp,
     overallDuration |-> overallDuration,
     rangeSet |-> FALSE, occupiedFrom |-> 0, occupiedTo |-> 0]

\* append to a map keyed by the type alone: the first entry of a type stays
appendArticulationData_KeepFirst(meta, res) ==
    IF \E i \in 1..Len(res) : res[i].type = meta.type THEN res ELSE Append(res, meta)

\* ArticulationMap::append: entries are kept in contribution order, several of
\* one type side by side
appendArticulationData(meta, res) == Append(res, meta)

\* ArticulationMap::updateOccupiedRange(type, from, to): by type
updateOccupiedRange(res, type, occupiedFrom, occupiedTo) ==
    [i \in 1..Len(res) |->
        IF res[i].type = type
        THEN [res[i] EXCEPT !.rangeSet = TRUE, !.occupiedFrom = occupiedFrom,
                            !.occupiedTo = occupiedTo]
        ELSE res[i]]

----------------------------------------------------------------------------
(* Score, ticks and the rendering context *)

\* timestampFromTicks(score, tick): the tempo map of the score, strictly
\* increasing; the tempo doubles at tick 3
timestampFromTicks(tick) == IF tick <= 3 THEN 4 * tick ELSE 12 + 2 * (tick - 3)

\* the staves of the score: staves 1 and 2 belong to part 1, staff 3 to part 2
PartOfStaff(staffIdx) == IF staffIdx = 3 THEN 2 ELSE 1

\* the context a caller builds for a chord at [startTick, endTick)
MakeContext(score, prof, startTick, endTick, offset) ==
    [score |-> score, profile |-> prof,
     nominalPositionStartTick |-> startTick,
     nominalPositionEndTick |-> endTick,
     nominalDurationTicks |-> endTick - startTick,
     positionTickOffset |-> offset,
     nominalTimestamp |-> timestampFromTicks(startTick + offset),
     nominalDuration |-> timestampFromTicks(endTick + offset)
                          - timestampFromTicks(startTick + offset)]

\* RenderingContext::isValid
isValid(c) ==
    /\ c.score
    /\ c.profile
    /\ c.nominalPositionStartTick >= 0
    /\ c.nominalPositionStartTick <= c.nominalPositionEndTick

----------------------------------------------------------------------------
(* The spanner index and the spanner filter *)

\* SpannerMap::findOverlapping(start, stop, excludeCollisions): one interval
\* (spanner, overlapStart, overlapStop) per overlapping spanner, in index order
RECURSIVE findOverlapping(_, _, _, _)
findOverlapping(map, start, stop, excludeCollisions) ==
    IF map = <<>> THEN <<>>
    ELSE LET sp == Head(map)
             overlaps == IF excludeCollisions
                         THEN sp.start < stop /\ sp.stop > start
                         ELSE sp.start <= stop /\ sp.stop >= start
             rest == findOverlapping(Tail(map), start, stop, excludeCollisions)
         IN IF overlaps
            THEN <<[start |-> Max(sp.start, start), stop |-> Min(sp.stop, stop),
                    value |-> sp]>> \o rest
            ELSE rest

\* SpannersMetaParser: the articulation type of a spanner kind
SpannerArticulationType(kind) ==
    CASE kind = "SLUR" -> "Legato"
      [] kind = "PEDAL" -> "Pedal"
      [] OTHER -> Undefined

\* SpannersMetaParser::isAbleToParse
isAbleToParse(spanner) == SpannerArticulationType(spanner.kind) # Undefined

\* SpannerFilter::isMultiStaffSpanner
isMultiStaffSpanner(spanner) == spanner.multiStaff

\* SpannerFilter::isItemPlayable
isItemPlayable(spanner, c) == spanner.playable

\* SpannerFilter::spannerActualDurationTicks: the spanner's playable duration,
\* clipped to the ticks given
spannerActualDurationTicks(spanner, ticks) == Min(spanner.stop - spanner.start, ticks)

\* SpannersMetaParser::parse: one entry of the spanner's type at the spanner
\* context's own timestamp and duration, when the profile has a pattern for it
SpannersMetaParser_parse(spanner, sc, res) ==
    LET type == SpannerArticulationType(spanner.kind)
        from == timestampFromTicks(sc.nominalPositionStartTick + sc.positionTickOffset)
        to == timestampFromTicks(sc.nominalPositionEndTick + sc.positionTickOffset)
    IN IF pattern(type) = <<>> THEN res
       ELSE appendArticulationData(
                ArticulationMeta(type, pattern(type), sc.nominalTimestamp, to - from), res)

----------------------------------------------------------------------------
(* ChordArticulationsParser::parseSpanners *)

\* the checks without the staff scope
SpannerPasses_NoStaffScope(ch, c, spanner) ==
    /\ isAbleToParse(spanner)
    /\ isItemPlayable(spanner, c)

\* lines 107-123: whether the spanner of an interval is handed to the sub-parser
SpannerPasses(ch, c, spanner) ==
    /\ isAbleToParse(spanner)
    /\ IF isMultiStaffSpanner(spanner)
       THEN PartOfStaff(spanner.staffIdx) = PartOfStaff(ch.staffIdx)
       ELSE spanner.staffIdx = ch.staffIdx
    /\ isItemPlayable(spanner, c)

\* the spanner's context with its timestamp taken without positionTickOffset
SpannerContext_NoOffset(c, interval) ==
    LET durationTicks == spannerActualDurationTicks(interval.value,
                                                    interval.stop - interval.start)
    IN [c EXCEPT
          !.nominalTimestamp = timestampFromTicks(interval.start),
          !.nominalPositionStartTick = interval.start,
          !.nominalDurationTicks = durationTicks,
          !.nominalPositionEndTick = interval.start + durationTicks]

\* lines 125-129: the spanner's own context, a copy of ctx with its timing set
SpannerContext(c, interval) ==
    LET durationTicks == spannerActualDurationTicks(interval.value,
                                                    interval.stop - interval.start)
    IN [c EXCEPT
          !.nominalTimestamp = timestampFromTicks(interval.start + c.positionTickOffset),
          !.nominalPositionStartTick = interval.start,
          !.nominalDurationTicks = durationTicks,
          !.nominalPositionEndTick = interval.start + durationTicks]

\* the query with collisions included
SpannerIntervals_WithCollisions(c) ==
    IF spannerMap = <<>> THEN <<>>
    ELSE findOverlapping(spannerMap, c.nominalPositionStartTick,
                         c.nominalPositionEndTick, FALSE)

\* lines 95-102: the intervals of the loop
SpannerIntervals(c) ==
    IF spannerMap = <<>> THEN <<>>
    ELSE findOverlapping(spannerMap, c.nominalPositionStartTick,
                         c.nominalPositionEndTick, TRUE)

\* the loop left after the first spanner handed on
RECURSIVE SpannerLoop_FirstOnly(_, _, _, _)
SpannerLoop_FirstOnly(ch, c, intervals, run) ==
    IF intervals = <<>> THEN run
    ELSE LET interval == Head(intervals)
         IN IF SpannerPasses(ch, c, interval.value)
            THEN [result |-> SpannersMetaParser_parse(
                                 interval.value, SpannerContext(c, interval), run.result),
                  handed |-> Append(run.handed, interval.value)]
            ELSE SpannerLoop_FirstOnly(ch, c, Tail(intervals), run)

\* lines 104-132: the loop over the intervals; run holds the map and the
\* spanners handed to SpannersMetaParser::parse so far
RECURSIVE SpannerLoop(_, _, _, _)
SpannerLoop(ch, c, intervals, run) ==
    IF intervals = <<>> THEN run
    ELSE LET interval == Head(intervals)
             next == IF SpannerPasses(ch, c, interval.value)
                     THEN [result |-> SpannersMetaParser_parse(
                                          interval.value, SpannerContext(c, interval),
                                          run.result),
                           handed |-> Append(run.handed, interval.value)]
                     ELSE run
         IN SpannerLoop(ch, c, Tail(intervals), next)

\* the timing of the last spanner handed on written into ctx itself
CallerContext_Overridden(ch, c) ==
    LET passing == SelectSeq(SpannerIntervals(c), LAMBDA iv : SpannerPasses(ch, c, iv.value))
    IN IF passing = <<>> THEN c ELSE SpannerContext(c, passing[Len(passing)])

\* line 125: spannerContext is a copy of ctx, so the caller's context is as
\* it was when parseSpanners returns
CallerContext(ch, c) == c

parseSpanners(ch, c, res) ==
    SpannerLoop(ch, c, SpannerIntervals(c), [result |-> res, handed |-> <<>>]).result

\* the spanners parseSpanners hands to SpannersMetaParser::parse, in order
HandedSpanners(ch, c) ==
    SpannerLoop(ch, c, SpannerIntervals(c), [result |-> <<>>, handed |-> <<>>]).handed

----------------------------------------------------------------------------
(* The sub-parsers the chord parser delegates to *)

\* one entry of the given type at the context's timestamp and duration, when
\* the profile has a pattern for the type
AppendAtContext(type, c, res) ==
    IF pattern(type) = <<>> THEN res
    ELSE appendArticulationData(
             ArticulationMeta(type, pattern(type), c.nominalTimestamp, c.nominalDuration),
             res)

\* SymbolsMetaParser::parse
SymbolsMetaParser_parse(articulation, c, res) == AppendAtContext(articulation, c, res)

\* AnnotationsMetaParser::parse
AnnotationsMetaParser_parse(annotation, c, res) == AppendAtContext(annotation.kind, c, res)

\* ArpeggioMetaParser::parse
ArpeggioMetaParser_parse(arpeggio, c, res) == AppendAtContext("Arpeggio", c, res)

\* ChordLineMetaParser::parse
ChordLineMetaParser_parse(chordLine, c, res) == AppendAtContext("Fall", c, res)

\* the context of a grace-note chord: it starts with its parent and lasts one
\* tick, no longer than the parent
GraceContext(c) ==
    LET endTick == Min(c.nominalPositionStartTick + 1, c.nominalPositionEndTick)
    IN MakeContext(c.score, c.profile, c.nominalPositionStartTick, endTick,
                   c.positionTickOffset)

----------------------------------------------------------------------------
(* ChordArticulationsParser: the sub-parsers of doParse *)

RECURSIVE AnnotationLoop(_, _, _, _)
AnnotationLoop(ch, c, annotations, res) ==
    IF annotations = <<>> THEN res
    ELSE LET annotation == Head(annotations)
             next == IF annotation.staffIdx # ch.staffIdx THEN res
                     ELSE AnnotationsMetaParser_parse(annotation, c, res)
         IN AnnotationLoop(ch, c, Tail(annotations), next)

\* the annotations of every staff parsed
RECURSIVE AnnotationLoop_AllStaves(_, _, _)
AnnotationLoop_AllStaves(c, annotations, res) ==
    IF annotations = <<>> THEN res
    ELSE AnnotationLoop_AllStaves(c, Tail(annotations),
                                  AnnotationsMetaParser_parse(Head(annotations), c, res))

parseAnnotations_AllStaves(ch, c, res) == AnnotationLoop_AllStaves(c, ch.annotations, res)

parseAnnotations(ch, c, res) == AnnotationLoop(ch, c, ch.annotations, res)

RECURSIVE SymbolLoop(_, _, _)
SymbolLoop(c, articulations, res) ==
    IF articulations = <<>> THEN res
    ELSE SymbolLoop(c, Tail(articulations),
                    SymbolsMetaParser_parse(Head(articulations), c, res))

parseArticulationSymbols(ch, c, res) == SymbolLoop(c, ch.articulations, res)

\* the switch with every case one label too late
tremoloTypeToArticulationType_Shifted(type) ==
    CASE type \in {"R8", "C8"} -> "Tremolo16th"
      [] type \in {"R16", "C16"} -> "Tremolo32nd"
      [] type \in {"R32", "C32"} -> "Tremolo64th"
      [] type \in {"R64", "C64"} -> "TremoloBuzz"
      [] OTHER -> Undefined

tremoloTypeToArticulationType(type) ==
    CASE type \in {"R8", "C8"} -> "Tremolo8th"
      [] type \in {"R16", "C16"} -> "Tremolo16th"
      [] type \in {"R32", "C32"} -> "Tremolo32nd"
      [] type \in {"R64", "C64"} -> "Tremolo64th"
      [] type = "BUZZ_ROLL" -> "TremoloBuzz"
      [] OTHER -> Undefined

\* the single-chord tremolo only, without the else-if of lines 188-189
ResolvedTremoloType_SingleOnly(ch) ==
    IF ch.tremoloSingleChord.present /\ ch.tremoloSingleChord.playTremolo
    THEN ch.tremoloSingleChord.tremoloType
    ELSE NoItem

\* the two-chord tremolo tried first
ResolvedTremoloType_TwoFirst(ch) ==
    IF ch.tremoloTwoChord.present /\ ch.tremoloTwoChord.playTremolo
    THEN ch.tremoloTwoChord.tremoloType
    ELSE IF ch.tremoloSingleChord.present /\ ch.tremoloSingleChord.playTremolo
    THEN ch.tremoloSingleChord.tremoloType
    ELSE NoItem

\* lines 186-192: the tremolo type parseTremolo resolves, NoItem for "return"
ResolvedTremoloType(ch) ==
    IF ch.tremoloSingleChord.present /\ ch.tremoloSingleChord.playTremolo
    THEN ch.tremoloSingleChord.tremoloType
    ELSE IF ch.tremoloTwoChord.present /\ ch.tremoloTwoChord.playTremolo
    THEN ch.tremoloTwoChord.tremoloType
    ELSE NoItem

parseTremolo(ch, c, res) ==
    LET tremoloType == ResolvedTremoloType(ch)
        articulationType == tremoloTypeToArticulationType(tremoloType)
    IN IF tremoloType = NoItem THEN res
       ELSE IF articulationType = Undefined THEN res
       ELSE IF pattern(articulationType) # <<>>
       THEN appendArticulationData(
                ArticulationMeta(articulationType, pattern(articulationType),
                                 c.nominalTimestamp, c.nominalDuration), res)
       ELSE res

\* the arpeggio parsed whatever the number of notes
parseArpeggio_NoNotesCheck(ch, c, res) ==
    IF ~ch.arpeggio THEN res
    ELSE ArpeggioMetaParser_parse(ch.arpeggio, c, res)

parseArpeggio(ch, c, res) ==
    IF ~ch.arpeggio THEN res
    ELSE IF ch.notes = 0 THEN res
    ELSE ArpeggioMetaParser_parse(ch.arpeggio, c, res)

parseChordLine(ch, c, res) ==
    IF ~ch.chordLine.present \/ ~ch.chordLine.playChordLine THEN res
    ELSE ChordLineMetaParser_parse(ch.chordLine, c, res)

\* parseTapping without the playArticulation() test of line 246
parseTapping_Unplayable(ch, c, res) ==
    IF ~ch.tapping.present THEN res
    ELSE LET type == CASE ch.tapping.hand = "LEFT" -> "LeftHandTapping"
                       [] ch.tapping.hand = "RIGHT" -> "RightHandTapping"
                       [] OTHER -> Undefined
         IN IF type = Undefined THEN res
            ELSE IF pattern(type) = <<>> THEN res
            ELSE appendArticulationData(
                     ArticulationMeta(type, pattern(type), c.nominalTimestamp,
                                      c.nominalDuration), res)

parseTapping(ch, c, res) ==
    IF ~ch.tapping.present \/ ~ch.tapping.playArticulation THEN res
    ELSE LET type == CASE ch.tapping.hand = "LEFT" -> "LeftHandTapping"
                       [] ch.tapping.hand = "RIGHT" -> "RightHandTapping"
                       [] OTHER -> Undefined
         IN IF type = Undefined THEN res
            ELSE IF pattern(type) = <<>> THEN res
            ELSE appendArticulationData(
                     ArticulationMeta(type, pattern(type), c.nominalTimestamp,
                                      c.nominalDuration), res)

RECURSIVE doParse(_, _, _)

\* GraceNotesMetaParser::parse: the full set of sub-parsers on the grace chord,
\* with the grace chord's own timing
GraceNotesMetaParser_parse(graceChord, c, res) == doParse(graceChord, GraceContext(c), res)

RECURSIVE GraceLoop(_, _, _)
GraceLoop(c, graceNotes, res) ==
    IF graceNotes = <<>> THEN res
    ELSE GraceLoop(c, Tail(graceNotes), GraceNotesMetaParser_parse(Head(graceNotes), c, res))

\* the loop of lines 228-230 left after the first grace-note chord
parseGraceNotes_FirstOnly(ch, c, res) ==
    IF ch.graceNotes = <<>> THEN res
    ELSE GraceNotesMetaParser_parse(Head(ch.graceNotes), c, res)

parseGraceNotes(ch, c, res) == GraceLoop(c, ch.graceNotes, res)

doParse(ch, c, res) ==
    LET r1 == parseSpanners(ch, c, res)
        r2 == parseAnnotations(ch, c, r1)
        r3 == parseTremolo(ch, c, r2)
        r4 == parseArpeggio(ch, c, r3)
        r5 == parseGraceNotes(ch, c, r4)
        r6 == parseChordLine(ch, c, r5)
        r7 == parseArticulationSymbols(ch, c, r6)
    IN parseTapping(ch, c, r7)

----------------------------------------------------------------------------
(* buildChordArticulationMap, lines 59-70: the occupied-range loop *)

\* the loop with the ranges left as the ratios, not clamped
RECURSIVE OccupiedRangeLoop_Unclamped(_, _, _)
OccupiedRangeLoop_Unclamped(c, res, i) ==
    IF i > Len(res) THEN res
    ELSE IF isSingleNoteArticulation(res[i].type)
    THEN OccupiedRangeLoop_Unclamped(c, res, i + 1)
    ELSE LET duration == res[i].overallDuration
             occupiedFrom == IF duration <= 0 THEN 0
                             ELSE ((c.nominalTimestamp - res[i].timestamp)
                                   * HUNDRED_PERCENT) \div duration
             occupiedTo == IF duration <= 0 THEN 0
                           ELSE ((c.nominalTimestamp + c.nominalDuration
                                  - res[i].timestamp) * HUNDRED_PERCENT) \div duration
         IN OccupiedRangeLoop_Unclamped(
                c, updateOccupiedRange(res, res[i].type, occupiedFrom, occupiedTo), i + 1)

\* the loop without the check of lines 60-62: every entry gets a range
RECURSIVE OccupiedRangeLoop_AllTypes(_, _, _)
OccupiedRangeLoop_AllTypes(c, res, i) ==
    IF i > Len(res) THEN res
    ELSE LET occupiedFrom == occupiedPercentage(c.nominalTimestamp - res[i].timestamp,
                                                res[i].overallDuration)
             occupiedTo == occupiedPercentage(
                               c.nominalTimestamp + c.nominalDuration - res[i].timestamp,
                               res[i].overallDuration)
         IN OccupiedRangeLoop_AllTypes(c, updateOccupiedRange(res, res[i].type, occupiedFrom,
                                                              occupiedTo), i + 1)

\* the loop visits the entries i..Len(res) in order
RECURSIVE OccupiedRangeLoop(_, _, _)
OccupiedRangeLoop(c, res, i) ==
    IF i > Len(res) THEN res
    ELSE IF isSingleNoteArticulation(res[i].type) THEN OccupiedRangeLoop(c, res, i + 1)
    ELSE LET occupiedFrom == occupiedPercentage(c.nominalTimestamp - res[i].timestamp,
                                                res[i].overallDuration)
             occupiedTo == occupiedPercentage(
                               c.nominalTimestamp + c.nominalDuration - res[i].timestamp,
                               res[i].overallDuration)
         IN OccupiedRangeLoop(c, updateOccupiedRange(res, res[i].type, occupiedFrom,
                                                     occupiedTo), i + 1)

----------------------------------------------------------------------------
(* Inputs of a build *)

NoTremolo == [present |-> FALSE, playTremolo |-> FALSE, tremoloType |-> "INVALID_TREMOLO"]
NoChordLine == [present |-> FALSE, playChordLine |-> FALSE]
NoTapping == [present |-> FALSE, playArticulation |-> FALSE, hand |-> "INVALID"]

\* a chord of one note on staff 1 with no ornament; present = FALSE is the
\* null pointer
PlainChord ==
    [present |-> TRUE, staffIdx |-> 1, notes |-> 1,
     tremoloSingleChord |-> NoTremolo, tremoloTwoChord |-> NoTremolo,
     arpeggio |-> FALSE, graceNotes |-> <<>>, chordLine |-> NoChordLine,
     articulations |-> <<>>, tapping |-> NoTapping, annotations |-> <<>>]

NullChord == [PlainChord EXCEPT !.present = FALSE]

\* the plain input: the plain chord at ticks [1, 3) of a score without
\* spanners, every pattern in the profile, built into an empty map
PlainInput ==
    [chord |-> PlainChord, score |-> TRUE, prof |-> TRUE,
     startTick |-> 1, endTick |-> 3, offset |-> 0,
     spannerMap |-> <<>>, profile |-> ArticulationTypes, result0 |-> <<>>]

SingleTremolos ==
    [present : {TRUE}, playTremolo : BOOLEAN,
     tremoloType : {"R8", "BUZZ_ROLL", "INVALID_TREMOLO"}]
TwoTremolos ==
    [present : {TRUE}, playTremolo : BOOLEAN,
     tremoloType : {"C8", "C16", "INVALID_TREMOLO"}]
ChordLines == [present : {TRUE}, playChordLine : BOOLEAN]
Tappings == [present : {TRUE}, playArticulation : BOOLEAN, hand : {"LEFT", "RIGHT", "INVALID"}]
Annotations == [staffIdx : {1, 2}, kind : {"Pizzicato"}]
Symbols == {"Staccato"}

\* grace-note chords: one ornament each, no grace notes of their own
GraceChords ==
    {[PlainChord EXCEPT !.tapping = [present |-> TRUE, playArticulation |-> TRUE,
                                     hand |-> "LEFT"]],
     [PlainChord EXCEPT !.tremoloSingleChord = [present |-> TRUE, playTremolo |-> TRUE,
                                                tremoloType |-> "R8"]],
     [PlainChord EXCEPT !.articulations = <<"Staccato">>]}

\* a slur on the chord's staff, playable
PlainSpanners ==
    {[kind |-> "SLUR", start |-> p[1], stop |-> p[2], multiStaff |-> FALSE,
      staffIdx |-> 1, playable |-> TRUE] :
        p \in {q \in (0..MaxTick) \X (0..MaxTick) : q[1] < q[2]}}

\* entries a map passed in may hold from an earlier build
EarlierEntries ==
    {[type |-> "Legato", pattern |-> <<"Legato">>, timestamp |-> 0, overallDuration |-> 20,
      rangeSet |-> TRUE, occupiedFrom |-> 0, occupiedTo |-> 2000],
     [type |-> "Staccato", pattern |-> <<"Staccato">>, timestamp |-> 0, overallDuration |-> 4,
      rangeSet |-> FALSE, occupiedFrom |-> 0, occupiedTo |-> 0]}

\* the last spanner of the input's score
LastSpanner(in) ==
    IF in.spannerMap = <<>>
    THEN [kind |-> "SLUR", start |-> 0, stop |-> 1, multiStaff |-> FALSE,
          staffIdx |-> 1, playable |-> TRUE]
    ELSE in.spannerMap[Len(in.spannerMap)]

\* the input with the last spanner of its score replaced by sp
WithLastSpanner(in, sp) ==
    IF in.spannerMap = <<>> THEN in
    ELSE [in EXCEPT !.spannerMap[Len(in.spannerMap)] = sp]

\* the input with its chord, when it has one, replaced by ch
WithChord(in, ch) == IF in.chord.present THEN [in EXCEPT !.chord = ch] ELSE in

\* the inputs that differ from in in one more respect
Variants(in) ==
    {[in EXCEPT !.chord = NullChord]}
    \cup {WithChord(in, [in.chord EXCEPT !.tremoloSingleChord = t]) : t \in SingleTremolos}
    \cup {WithChord(in, [in.chord EXCEPT !.tremoloTwoChord = t]) : t \in TwoTremolos}
    \cup {WithChord(in, [in.chord EXCEPT !.arpeggio = TRUE])}
    \cup {WithChord(in, [in.chord EXCEPT !.notes = 0])}
    \cup {WithChord(in, [in.chord EXCEPT !.graceNotes = Append(@, g)]) : g \in GraceChords}
    \cup {WithChord(in, [in.chord EXCEPT !.chordLine = l]) : l \in ChordLines}
    \cup {WithChord(in, [in.chord EXCEPT !.articulations = Append(@, a)]) : a \in Symbols}
    \cup {WithChord(in, [in.chord EXCEPT !.tapping = t]) : t \in Tappings}
    \cup {WithChord(in, [in.chord EXCEPT !.annotations = Append(@, a)]) : a \in Annotations}
    \cup {[in EXCEPT !.spannerMap = Append(@, sp)] : sp \in PlainSpanners}
    \cup {WithLastSpanner(in, [LastSpanner(in) EXCEPT !.kind = k]) : k \in {"PEDAL", "VOLTA"}}
    \cup {WithLastSpanner(in, [LastSpanner(in) EXCEPT !.multiStaff = m, !.staffIdx = i]) :
             m \in BOOLEAN, i \in {1, 2, 3}}
    \cup {WithLastSpanner(in, [LastSpanner(in) EXCEPT !.playable = FALSE])}
    \cup {[in EXCEPT !.score = FALSE], [in EXCEPT !.prof = FALSE]}
    \cup {[in EXCEPT !.startTick = t] : t \in -1..MaxTick}
    \cup {[in EXCEPT !.endTick = t] : t \in 0..MaxTick}
    \cup {[in EXCEPT !.offset = o] : o \in 0..MaxOffset}
    \cup {[in EXCEPT !.profile = @ \ {t}] : t \in ArticulationTypes}
    \cup {[in EXCEPT !.result0 = Append(@, e)] : e \in EarlierEntries}

----------------------------------------------------------------------------
(* The caller and the build as a state machine *)

\* the input the caller has prepared so far
CurrentInput ==
    [chord |-> chord, score |-> ctx.score, prof |-> ctx.profile,
     startTick |-> ctx.nominalPositionStartTick, endTick |-> ctx.nominalPositionEndTick,
     offset |-> ctx.positionTickOffset,
     spannerMap |-> spannerMap, profile |-> profile, result0 |-> result0]

\* the volume range of setVolume in dB, the balance range of setBalance in
\* tenths, and the volume and balance of a channel nothing was loaded for
MinVolume == -60
MaxVolume == 12
MinBalance == -10
MaxBalance == 10
DefaultVolume == 1
DefaultBalance == 0

\* TrackSequenceId(-1); the track id the operations test for
InvalidId == -1

\* what the channel finds around it: playback() non-null or null, and the
\* value of audioTrackId() (InvalidId, or another id: that of the part's
\* track, or a default-constructed one)
Environments == [pb : BOOLEAN, trackId : {InvalidId, 1}]

\* the values of currentSequenceId()
SequenceIds == {InvalidId, 1}

\* no playback service, no playback controller
NoPlayback == [pb |-> FALSE, trackId |-> InvalidId]

\* the audio resources availableInputResources() resolves with, by id
AvailableResources == <<"MS Basic", "Muse Strings">>

\* a null AudioResource*
NullSound == "nullptr"

\* availableSounds() has not been called since the input parameters changed
NotCalled == [called |-> FALSE, list |-> <<>>]

\* a configuration without keys
NoConfiguration == [k \in {} |-> <<>>]

\* a default-constructed AudioInputParams
NoInputParams == [resourceMeta |-> "", configuration |-> NoConfiguration]

\* lines 84-97: the members after the constructor's assignments
NewMixerChannel ==
    [m_cachedOutputParams |-> [volume |-> DefaultVolume, balance |-> DefaultBalance,
                               muted |-> FALSE, solo |-> FALSE],
     m_outputParamsValid |-> FALSE,
     m_cachedInputParams |-> NoInputParams,
     m_inputParamsValid |-> FALSE,
     m_cachedCurrentSound |-> NullSound,
     m_currentSoundCacheValid |-> FALSE]

\* lines 157-168 and 195-206: loadInitialParams and subscribeToParamChanges
\* do nothing without playback, a sequence and a track
Connects(e, sequenceId) == e.pb /\ sequenceId # InvalidId /\ e.trackId # InvalidId

\* lines 171-188 and 209-228: the two promises of loadInitialParams, and the
\* subscription of subscribeToParamChanges with the track id it captures
Connections(e, sequenceId) ==
    [loading |-> IF Connects(e, sequenceId) THEN {"outputParams", "inputParams"} ELSE {},
     subscribed |-> Connects(e, sequenceId),
     trackId |-> e.trackId,
     requests |-> <<>>]

\* a MixerChannel has just been constructed in the environment e, with
\* currentSequenceId() returning sequenceId; the track plays the first
\* available resource
Constructed(e, sequenceId) ==
    /\ env = e
    /\ mixer = NewMixerChannel
    /\ sounds = [valid |-> FALSE, list |-> <<>>, returned |-> NotCalled]
    /\ async = Connections(e, sequenceId)
    /\ audio = [inputParams |-> [resourceMeta |-> AvailableResources[1],
                                  configuration |-> NoConfiguration]]
    /\ out = [op |-> "MixerChannel", arg |-> <<>>, ret |-> "void", sent |-> "nothing"]

\* no second build
\* the instrument tracks of the notation
InstrumentTrackIds ==
    {[partId |-> 1, instrumentId |-> "violin"], [partId |-> 2, instrumentId |-> "cello"]}

\* the values a SoloMuteState can take; volumes in dB, balances in tenths
SoloMuteStates ==
    [mute : BOOLEAN, solo : BOOLEAN, hasCustomVolume : BOOLEAN,
     volumeDb : {0, -6}, balance : {0, 5}]

\* a SoloMuteState as constructed
DefaultSoloMuteState ==
    [mute |-> FALSE, solo |-> FALSE, hasCustomVolume |-> FALSE, volumeDb |-> 0, balance |-> 0]

\* find() == end(): the map has no entry for the track
NotStored == [stored |-> FALSE, state |-> DefaultSoloMuteState]

\* readAudioSettingsJsonFile gives an empty byte array
NoAudioSettings ==
    [empty |-> TRUE, tracks |-> <<>>,
     written |-> [trackId \in InstrumentTrackIds |-> NotStored]]

\* the part ids of the master score and of its excerpt
PartIds == {1, 2}

\* globalIoc()->resolve<IGlobalContext>() gives a null pointer
NoGlobalContext ==
    [resolved |-> FALSE, current |-> "none", masterParts |-> <<>>,
     excerptParts |-> [partId \in PartIds |-> "absent"]]

\* a NotationSoloMuteState as constructed (and no context): an empty map,
\* nothing sent
NothingStored ==
    /\ m_trackSoloMuteStatesMap = [trackId \in InstrumentTrackIds |-> NotStored]
    /\ m_trackSoloMuteStateChanged =
           [op |-> "none", trackId |-> [partId |-> 0, instrumentId |-> ""],
            state |-> DefaultSoloMuteState, found |-> NotStored, sent |-> <<>>,
            pending |-> <<>>, had |-> {}, ret |-> "void"]
    /\ audioSettings = NoAudioSettings
    /\ globalContext = NoGlobalContext

NoBuild == [pc |-> "idle", chord |-> NullChord, ctx |-> MakeContext(FALSE, FALSE, 0, 0, 0),
            result |-> <<>>]

Init ==
    /\ chord = PlainInput.chord
    /\ ctx = MakeContext(PlainInput.score, PlainInput.prof, PlainInput.startTick,
                         PlainInput.endTick, PlainInput.offset)
    /\ spannerMap = PlainInput.spannerMap
    /\ profile = PlainInput.profile
    /\ result0 = PlainInput.result0
    /\ result = PlainInput.result0
    /\ features = 0
    /\ pc = "prepare"
    /\ handed = <<>>
    /\ calls = <<>>
    /\ other = NoBuild
    /\ wrappers = <<>>
    /\ channels = <<>>
    /\ cache = {}
    /\ handedOut = {}
    /\ Constructed(NoPlayback, InvalidId)
    /\ NothingStored

\* the caller changes the input in one more respect
Prepare ==
    /\ pc = "prepare"
    /\ features < MaxFeatures
    /\ \E in \in Variants(CurrentInput) :
          /\ chord' = in.chord
          /\ ctx' = MakeContext(in.score, in.prof, in.startTick, in.endTick, in.offset)
          /\ spannerMap' = in.spannerMap
          /\ profile' = in.profile
          /\ result0' = in.result0
          /\ result' = in.result0
    /\ features' = features + 1
    /\ UNCHANGED <<pc, handed, calls>>
    /\ UNCHANGED outside

\* the caller calls buildChordArticulationMap(chord, ctx, result)
Call ==
    /\ pc = "prepare"
    /\ pc' = "start"
    /\ UNCHANGED <<chord, ctx, spannerMap, profile, result0, result, features, handed, calls>>
    /\ UNCHANGED outside

inputs == <<chord, ctx, spannerMap, profile, result0, features>>

\* the guard without the context check
Guard_ChordOnly(ch, c) == ~ch.present

\* lines 52-55: the guard of buildChordArticulationMap
Guard(ch, c) == ~ch.present \/ ~isValid(c)

\* the build returns at the guard
FailFast ==
    /\ pc = "start"
    /\ Guard(chord, ctx)
    /\ pc' = "done"
    /\ UNCHANGED <<inputs, result, handed, calls>>
    /\ UNCHANGED outside

\* doParse, lines 83-90 with the symbols sub-parser moved to the front
SubParsers_SymbolsFirst ==
    <<"parseArticulationSymbols", "parseSpanners", "parseAnnotations", "parseTremolo",
      "parseArpeggio", "parseGraceNotes", "parseChordLine", "parseTapping">>

\* doParse, lines 83-90: the sub-parsers in the order of their calls
SubParsers ==
    <<"parseSpanners", "parseAnnotations", "parseTremolo", "parseArpeggio",
      "parseGraceNotes", "parseChordLine", "parseArticulationSymbols", "parseTapping">>

\* the build going from the last sub-parser straight to line 72
After_SkipsRanges(step) ==
    LET i == CHOOSE k \in 1..Len(SubParsers) : SubParsers[k] = step
    IN IF i < Len(SubParsers) THEN SubParsers[i + 1] ELSE "preCalculateAverageData"

\* where control goes when a sub-parser returns: the next call of doParse, or
\* after the last one back to buildChordArticulationMap, line 59
After(step) ==
    LET i == CHOOSE k \in 1..Len(SubParsers) : SubParsers[k] = step
    IN IF i < Len(SubParsers) THEN SubParsers[i + 1] ELSE "occupiedRange"

\* the build passes the guard and enters parse -> doParse
Enter ==
    /\ pc = "start"
    /\ ~Guard(chord, ctx)
    /\ pc' = SubParsers[1]
    /\ UNCHANGED <<inputs, result, handed, calls>>
    /\ UNCHANGED outside

\* doParse, line 83
ParseSpanners ==
    /\ pc = "parseSpanners"
    /\ result' = parseSpanners(chord, ctx, result)
    /\ calls' = Append(calls, "parseSpanners")
    /\ pc' = After("parseSpanners")
    /\ handed' = HandedSpanners(chord, ctx)
    /\ ctx' = CallerContext(chord, ctx)
    /\ UNCHANGED <<chord, spannerMap, profile, result0, features>>
    /\ UNCHANGED outside

\* doParse, line 84
ParseAnnotations ==
    /\ pc = "parseAnnotations"
    /\ result' = parseAnnotations(chord, ctx, result)
    /\ calls' = Append(calls, "parseAnnotations")
    /\ pc' = After("parseAnnotations")
    /\ UNCHANGED <<inputs, handed>>
    /\ UNCHANGED outside

\* doParse, line 85
ParseTremolo ==
    /\ pc = "parseTremolo"
    /\ result' = parseTremolo(chord, ctx, result)
    /\ calls' = Append(calls, "parseTremolo")
    /\ pc' = After("parseTremolo")
    /\ UNCHANGED <<inputs, handed>>
    /\ UNCHANGED outside

\* doParse, line 86
ParseArpeggio ==
    /\ pc = "parseArpeggio"
    /\ result' = parseArpeggio(chord, ctx, result)
    /\ calls' = Append(calls, "parseArpeggio")
    /\ pc' = After("parseArpeggio")
    /\ UNCHANGED <<inputs, handed>>
    /\ UNCHANGED outside

\* doParse, line 87
ParseGraceNotes ==
    /\ pc = "parseGraceNotes"
    /\ result' = parseGraceNotes(chord, ctx, result)
    /\ calls' = Append(calls, "parseGraceNotes")
    /\ pc' = After("parseGraceNotes")
    /\ UNCHANGED <<inputs, handed>>
    /\ UNCHANGED outside

\* doParse, line 88
ParseChordLine ==
    /\ pc = "parseChordLine"
    /\ result' = parseChordLine(chord, ctx, result)
    /\ calls' = Append(calls, "parseChordLine")
    /\ pc' = After("parseChordLine")
    /\ UNCHANGED <<inputs, handed>>
    /\ UNCHANGED outside

\* doParse, line 89
ParseArticulationSymbols ==
    /\ pc = "parseArticulationSymbols"
    /\ result' = parseArticulationSymbols(chord, ctx, result)
    /\ calls' = Append(calls, "parseArticulationSymbols")
    /\ pc' = After("parseArticulationSymbols")
    /\ UNCHANGED <<inputs, handed>>
    /\ UNCHANGED outside

\* doParse, line 90
ParseTapping ==
    /\ pc = "parseTapping"
    /\ result' = parseTapping(chord, ctx, result)
    /\ calls' = Append(calls, "parseTapping")
    /\ pc' = After("parseTapping")
    /\ UNCHANGED <<inputs, handed>>
    /\ UNCHANGED outside

\* lines 59-70
UpdateOccupiedRanges ==
    /\ pc = "occupiedRange"
    /\ result' = OccupiedRangeLoop(ctx, result, 1)
    /\ pc' = "preCalculateAverageData"
    /\ UNCHANGED <<inputs, handed, calls>>
    /\ UNCHANGED outside

\* line 72
PreCalculateAverageData ==
    /\ pc = "preCalculateAverageData"
    /\ calls' = Append(calls, "preCalculateAverageData")
    /\ pc' = "done"
    /\ UNCHANGED <<inputs, result, handed>>
    /\ UNCHANGED outside

Next ==
    \/ Prepare
    \/ Call
    \/ FailFast
    \/ Enter
    \/ ParseSpanners
    \/ ParseAnnotations
    \/ ParseTremolo
    \/ ParseArpeggio
    \/ ParseGraceNotes
    \/ ParseChordLine
    \/ ParseArticulationSymbols
    \/ ParseTapping
    \/ UpdateOccupiedRanges
    \/ PreCalculateAverageData

Spec == Init /\ [][Next]_vars

----------------------------------------------------------------------------
(* Two builds over one score and profile *)

\* buildChordArticulationMap(chord, ctx, result) as one call: the map it leaves
buildChordArticulationMap(ch, c, res) ==
    IF Guard(ch, c) THEN res ELSE OccupiedRangeLoop(c, doParse(ch, c, res), 1)

\* another chord of the score: two notes on staff 1 with an arpeggio and a
\* buzz roll
OtherChord ==
    [PlainChord EXCEPT !.notes = 2, !.arpeggio = TRUE,
                       !.tremoloSingleChord = [present |-> TRUE, playTremolo |-> TRUE,
                                               tremoloType |-> "BUZZ_ROLL"]]

\* the context of the other chord, at ticks [2, MaxTick) of the same score
OtherContext(c) == MakeContext(c.score, c.profile, 2, MaxTick, c.positionTickOffset)

\* a second call of buildChordArticulationMap, with a fresh map: for the same
\* chord and context, or for the other chord
OtherCall ==
    /\ pc # "prepare"
    /\ other.pc = "idle"
    /\ \E same \in BOOLEAN :
          other' = [pc |-> "start",
                    chord |-> IF same THEN chord ELSE OtherChord,
                    ctx |-> IF same THEN ctx ELSE OtherContext(ctx),
                    result |-> <<>>]
    /\ UNCHANGED <<build, wrappers, channels, cache, handedOut, mixerState, soloMute>>

\* lines 52-55 of the second build
OtherFailFast ==
    /\ other.pc = "start"
    /\ Guard(other.chord, other.ctx)
    /\ other' = [other EXCEPT !.pc = "done"]
    /\ UNCHANGED <<build, wrappers, channels, cache, handedOut, mixerState, soloMute>>

\* line 57 of the second build
OtherParse ==
    /\ other.pc = "start"
    /\ ~Guard(other.chord, other.ctx)
    /\ other' = [other EXCEPT !.pc = "occupiedRange",
                              !.result = doParse(other.chord, other.ctx, other.result)]
    /\ UNCHANGED <<build, wrappers, channels, cache, handedOut, mixerState, soloMute>>

\* lines 59-70 of the second build
OtherUpdateOccupiedRanges ==
    /\ other.pc = "occupiedRange"
    /\ other' = [other EXCEPT !.pc = "preCalculateAverageData",
                              !.result = OccupiedRangeLoop(other.ctx, other.result, 1)]
    /\ UNCHANGED <<build, wrappers, channels, cache, handedOut, mixerState, soloMute>>

\* line 72 of the second build
OtherPreCalculateAverageData ==
    /\ other.pc = "preCalculateAverageData"
    /\ other' = [other EXCEPT !.pc = "done"]
    /\ UNCHANGED <<build, wrappers, channels, cache, handedOut, mixerState, soloMute>>

RendersNext ==
    \/ Next
    \/ OtherCall
    \/ OtherFailFast
    \/ OtherParse
    \/ OtherUpdateOccupiedRanges
    \/ OtherPreCalculateAverageData

\* the steps of the two builds interleave in any order
RendersSpec == Init /\ [][RendersNext]_vars

----------------------------------------------------------------------------
(* Properties of a build *)

\* the build has returned after passing the guard
Built == pc = "done" /\ ~Guard(chord, ctx)

\* the sub-parser of that name has run
HasRun(name) == \E i \in 1..Len(calls) : calls[i] = name

\* the entries the build has appended so far
Appended == SubSeq(result, Len(result0) + 1, Len(result))

TremoloTypes == {"Tremolo8th", "Tremolo16th", "Tremolo32nd", "Tremolo64th", "TremoloBuzz"}

\* C1: a build of an absent chord or with an invalid context leaves the map
\* as it was passed in: it runs no sub-parser, appends no entry, updates no
\* occupied range and does not run preCalculateAverageData.
C1_FailFastLeavesMap ==
    (~chord.present \/ ~isValid(ctx))
        => /\ result = result0
           /\ calls = <<>>
           /\ handed = <<>>
           /\ pc \in {"prepare", "start", "done"}

\* a chord with an invalid context has been refused, the map passed in
\* holding an entry
C1_Witness ==
    /\ pc = "done"
    /\ chord.present
    /\ ~isValid(ctx)
    /\ Len(result0) = 1 /\ result0[1].type = "Legato"
    /\ result = result0

\* C2: after a build with a present chord and a valid context, every entry
\* whose occupied range is set has 0 <= occupiedFrom <= occupiedTo <= 1.
C2_OccupiedRangeBounds ==
    Built =>
        \A i \in 1..Len(result) :
            result[i].rangeSet =>
                /\ 0 <= result[i].occupiedFrom
                /\ result[i].occupiedFrom <= result[i].occupiedTo
                /\ result[i].occupiedTo <= HUNDRED_PERCENT

\* a build has set ranges, one of them the full range of a spanner entry whose
\* duration is shorter than the chord's
C2_Witness ==
    /\ Built
    /\ \E i \in 1..Len(result) :
          /\ result[i].rangeSet
          /\ i > Len(result0)
          /\ result[i].overallDuration < ctx.nominalDuration
          /\ result[i].occupiedTo = HUNDRED_PERCENT

\* C3: when the chord has a single-chord and a two-chord tremolo, both
\* playable, parseTremolo appends at most one entry, and its type is the one
\* of the single-chord tremolo's sub-type, not the two-chord tremolo's.
C3_TremoloPrecedence ==
    [][(/\ pc = "parseTremolo"
        /\ chord.tremoloSingleChord.present /\ chord.tremoloSingleChord.playTremolo
        /\ chord.tremoloTwoChord.present /\ chord.tremoloTwoChord.playTremolo)
       => \/ result' = result
          \/ /\ Len(result') = Len(result) + 1
             /\ SubSeq(result', 1, Len(result)) = result
             /\ result'[Len(result')].type
                  = tremoloTypeToArticulationType(chord.tremoloSingleChord.tremoloType)]_vars

\* both tremolos playable, of sub-types with different articulation types,
\* and the build has appended the single-chord tremolo's entry
C3_Witness ==
    /\ Built
    /\ chord.tremoloSingleChord.present /\ chord.tremoloSingleChord.playTremolo
    /\ chord.tremoloTwoChord.present /\ chord.tremoloTwoChord.playTremolo
    /\ chord.tremoloSingleChord.tremoloType = "BUZZ_ROLL"
    /\ chord.tremoloTwoChord.tremoloType = "C16"
    /\ "Tremolo16th" \in profile
    /\ Len(Appended) = 1
    /\ Appended[1].type = "TremoloBuzz"

\* every sub-parser but parseTremolo contributes nothing to the build
OnlyTremoloContributes ==
    /\ parseSpanners(chord, ctx, <<>>) = <<>>
    /\ parseAnnotations(chord, ctx, <<>>) = <<>>
    /\ parseArpeggio(chord, ctx, <<>>) = <<>>
    /\ parseGraceNotes(chord, ctx, <<>>) = <<>>
    /\ parseChordLine(chord, ctx, <<>>) = <<>>
    /\ parseArticulationSymbols(chord, ctx, <<>>) = <<>>
    /\ parseTapping(chord, ctx, <<>>) = <<>>

\* the articulation type of the single-chord tremolo sub-types
SingleTremoloArticulation(type) ==
    CASE type = "R8" -> "Tremolo8th"
      [] type = "R16" -> "Tremolo16th"
      [] type = "R32" -> "Tremolo32nd"
      [] type = "R64" -> "Tremolo64th"
      [] type = "BUZZ_ROLL" -> "TremoloBuzz"
      [] OTHER -> Undefined

\* C4: a chord whose only contribution is a playable single-chord tremolo of
\* a recognised sub-type with a non-empty pattern, built into an empty map,
\* yields exactly one entry: of the tremolo's type, at ctx.nominalTimestamp,
\* of ctx.nominalDuration, its occupied range never set.
C4_SingleTremoloEntry ==
    (/\ Built
     /\ result0 = <<>>
     /\ chord.tremoloSingleChord.present /\ chord.tremoloSingleChord.playTremolo
     /\ SingleTremoloArticulation(chord.tremoloSingleChord.tremoloType) \in profile
     /\ OnlyTremoloContributes)
        => /\ Len(result) = 1
           /\ result[1].type
                = SingleTremoloArticulation(chord.tremoloSingleChord.tremoloType)
           /\ result[1].pattern # <<>>
           /\ result[1].timestamp = ctx.nominalTimestamp
           /\ result[1].overallDuration = ctx.nominalDuration
           /\ ~result[1].rangeSet

\* an eighth-note single-chord tremolo alone has been built
C4_Witness ==
    /\ Built
    /\ result0 = <<>>
    /\ chord.tremoloSingleChord.present /\ chord.tremoloSingleChord.playTremolo
    /\ chord.tremoloSingleChord.tremoloType = "R8"
    /\ OnlyTremoloContributes
    /\ ctx.positionTickOffset = 1
    /\ Len(result) = 1 /\ result[1].type = "Tremolo8th"

\* the staff scope and the playability of a spanner, for the chord
EligibleSpanner(sp) ==
    /\ IF sp.multiStaff
       THEN PartOfStaff(sp.staffIdx) = PartOfStaff(chord.staffIdx)
       ELSE sp.staffIdx = chord.staffIdx
    /\ sp.playable

\* the spanner overlaps the chord's tick window, touching ends not counted
OverlapsWindow(sp) ==
    /\ sp.start < ctx.nominalPositionEndTick
    /\ sp.stop > ctx.nominalPositionStartTick

\* the spanner is one the build makes an entry for
Contributes(sp) ==
    /\ OverlapsWindow(sp)
    /\ EligibleSpanner(sp)
    /\ sp.kind \in {"SLUR", "PEDAL"}
    /\ SpannerArticulationType(sp.kind) \in profile

\* the entries the build appended with the given type at the chord's timestamp
EntriesAtChord(type) ==
    {i \in (Len(result0) + 1)..Len(result) :
        result[i].type = type /\ result[i].timestamp = ctx.nominalTimestamp}

\* C5: the entry of an eligible, playable spanner that starts at the chord's
\* window start and ends at its window end has occupiedFrom = 0 and
\* occupiedTo = 1 in the finalized map.
C5_FullSpannerRange ==
    Built =>
        \A k \in 1..Len(spannerMap) :
            (/\ Contributes(spannerMap[k])
             /\ spannerMap[k].start = ctx.nominalPositionStartTick
             /\ spannerMap[k].stop = ctx.nominalPositionEndTick)
                => /\ \E i \in EntriesAtChord(SpannerArticulationType(spannerMap[k].kind)) :
                         result[i].overallDuration = ctx.nominalDuration
                   /\ \A i \in EntriesAtChord(SpannerArticulationType(spannerMap[k].kind)) :
                         /\ result[i].rangeSet
                         /\ result[i].occupiedFrom = 0
                         /\ result[i].occupiedTo = HUNDRED_PERCENT

\* a multi-staff slur of another staff of the chord's part spans exactly the
\* chord's window and its entry has the full range
C5_Witness ==
    /\ Built
    /\ Len(spannerMap) = 1
    /\ spannerMap[1].kind = "SLUR" /\ spannerMap[1].multiStaff
    /\ spannerMap[1].staffIdx = 2
    /\ spannerMap[1].start = ctx.nominalPositionStartTick
    /\ spannerMap[1].stop = ctx.nominalPositionEndTick
    /\ Len(Appended) = 1
    /\ Appended[1].type = "Legato"
    /\ Appended[1].rangeSet
    /\ Appended[1].occupiedFrom = 0 /\ Appended[1].occupiedTo = HUNDRED_PERCENT

\* the spanner's overlap with the chord's window is the first half of the
\* window, in time
CoversFirstHalf(sp) ==
    /\ sp.start <= ctx.nominalPositionStartTick
    /\ sp.stop < ctx.nominalPositionEndTick
    /\ 2 * (timestampFromTicks(sp.stop + ctx.positionTickOffset) - ctx.nominalTimestamp)
         = ctx.nominalDuration

TouchesWindow(sp) ==
    \/ sp.stop = ctx.nominalPositionStartTick
    \/ sp.start = ctx.nominalPositionEndTick

\* C7: a spanner that only touches the chord's tick window is never handed
\* to the spanner sub-parser and produces no entry.
C7_TouchingSpannerExcluded ==
    /\ \A i \in 1..Len(handed) : ~TouchesWindow(handed[i])
    /\ (/\ pc = "parseAnnotations"
        /\ \A k \in 1..Len(spannerMap) : TouchesWindow(spannerMap[k]))
           => result = result0

\* parseSpanners has run on a score with a spanner ending where the window
\* starts and one starting where it ends, both otherwise eligible
C7_Witness ==
    /\ pc = "parseAnnotations"
    /\ Len(spannerMap) = 2
    /\ spannerMap[1].stop = ctx.nominalPositionStartTick
    /\ spannerMap[2].start = ctx.nominalPositionEndTick
    /\ \A k \in 1..2 : EligibleSpanner(spannerMap[k]) /\ spannerMap[k].kind = "SLUR"
    /\ "Legato" \in profile
    /\ handed = <<>>
    /\ result = result0

\* C8: a spanner the overlap query returns contributes an entry only if it
\* passes the staff scope (multi-staff: the chord's part; otherwise: the
\* chord's staff) and the playability check; others append nothing.
C8_OnlyEligibleSpanners ==
    /\ \A i \in 1..Len(handed) : EligibleSpanner(handed[i])
    /\ pc = "parseAnnotations"
           => Len(Appended) <= Cardinality({k \in 1..Len(spannerMap) :
                                               /\ OverlapsWindow(spannerMap[k])
                                               /\ EligibleSpanner(spannerMap[k])})

\* parseSpanners has skipped an overlapping, playable multi-staff slur of
\* another part
C8_Witness ==
    /\ pc = "parseAnnotations"
    /\ Len(spannerMap) = 1
    /\ OverlapsWindow(spannerMap[1])
    /\ spannerMap[1].kind = "SLUR" /\ spannerMap[1].playable
    /\ spannerMap[1].multiStaff /\ spannerMap[1].staffIdx = 3
    /\ "Legato" \in profile
    /\ handed = <<>>
    /\ result = result0

\* C9: an arpeggio entry is contributed only if the chord has an arpeggio and
\* at least one note; an arpeggio on a chord without notes produces no entry.
C9_ArpeggioNeedsNotes ==
    [][pc = "parseArpeggio"
       => /\ result' # result => (chord.arpeggio /\ chord.notes >= 1)
          /\ (chord.arpeggio /\ chord.notes = 0) => result' = result]_vars

\* a build of a chord with an arpeggio and no notes has returned without an
\* arpeggio entry, the profile holding an arpeggio pattern
C9_Witness ==
    /\ Built
    /\ chord.arpeggio /\ chord.notes = 0
    /\ "Arpeggio" \in profile
    /\ \A i \in 1..Len(result) : result[i].type # "Arpeggio"

\* C10: for a chord with no overlapping spanner, no annotation of its staff,
\* no tremolo, arpeggio, grace note, chord-line, articulation symbol or
\* tapping, a build into an empty map leaves the map empty.
C10_PlainChordEmptyMap ==
    (/\ Built
     /\ result0 = <<>>
     /\ \A k \in 1..Len(spannerMap) : ~OverlapsWindow(spannerMap[k])
     /\ \A k \in 1..Len(chord.annotations) : chord.annotations[k].staffIdx # chord.staffIdx
     /\ ~chord.tremoloSingleChord.present /\ ~chord.tremoloTwoChord.present
     /\ ~chord.arpeggio
     /\ chord.graceNotes = <<>>
     /\ ~chord.chordLine.present
     /\ chord.articulations = <<>>
     /\ ~chord.tapping.present)
        => result = <<>>

\* a chord without ornaments has been built in a score whose only spanner
\* lies outside the window, its segment holding an annotation of another staff
C10_Witness ==
    /\ Built
    /\ result0 = <<>>
    /\ Len(spannerMap) = 1 /\ ~OverlapsWindow(spannerMap[1])
    /\ EligibleSpanner(spannerMap[1])
    /\ Len(chord.annotations) = 1 /\ chord.annotations[1].staffIdx # chord.staffIdx
    /\ ~chord.tremoloSingleChord.present /\ ~chord.tremoloTwoChord.present
    /\ ~chord.arpeggio /\ chord.graceNotes = <<>> /\ ~chord.chordLine.present
    /\ chord.articulations = <<>> /\ ~chord.tapping.present
    /\ result = <<>>

----------------------------------------------------------------------------
(* apiv1::Part::mixerChannel and the cache of MixerChannel objects *)

\* the open scores; both were read from the same file, so that their parts
\* have the same ids
Scores == {1, 2}

\* the parts of the open scores
Parts == [score : Scores, id : 1..MaxParts]

\* part() of a wrapper made for a null part
NullPart == [score |-> 0, id |-> 0]

\* a null MixerChannel*
NullChannel == 0

\* s_mixerChannelCache.contains(key), with the cache never looked up
CacheContains_Never(key) == FALSE

\* line 167: s_mixerChannelCache.contains(key)
CacheContains(key) == \E e \in cache : e[1] = key

\* line 168: s_mixerChannelCache[key] of a key the cache contains
CacheValue(key) == (CHOOSE e \in cache : e[1] = key)[2]

\* line 176: s_mixerChannelCache[key] = channel
CacheInsert(key, channel) == {e \in cache : e[1] # key} \cup {<<key, channel>>}

\* lines 139-180: Part::mixerChannel on the wrapper w: the value returned, the
\* wrapper's m_mixerChannel, the MixerChannel objects and the cache afterwards
Part_mixerChannel(w) ==
    LET part == wrappers[w].part
        partId == part.id
        trackId == [partId |-> partId, instrumentId |-> "instrument"]
        created == Len(channels) + 1
        same == [returned |-> wrappers[w].mixerChannel, m_mixerChannel |-> wrappers[w].mixerChannel,
                 channels |-> channels, cache |-> cache]
    IN IF wrappers[w].mixerChannel # NullChannel THEN same
       ELSE IF part = NullPart THEN same
       ELSE IF CacheContains(partId)
       THEN [same EXCEPT !.returned = CacheValue(partId),
                         !.m_mixerChannel = CacheValue(partId)]
       ELSE [returned |-> created, m_mixerChannel |-> created,
             channels |-> Append(channels, trackId),
             cache |-> CacheInsert(partId, created)]

\* a plugin wraps a part of a score, or a null part
NewWrapper ==
    /\ Len(wrappers) < MaxWrappers
    /\ \E part \in Parts \cup {NullPart} :
          wrappers' = Append(wrappers, [part |-> part, mixerChannel |-> NullChannel])
    /\ UNCHANGED <<build, other, channels, cache, handedOut, mixerState, soloMute>>

\* a plugin calls mixerChannel() on one of its wrappers
MixerChannelCall ==
    /\ \E w \in 1..Len(wrappers) :
          LET call == Part_mixerChannel(w)
          IN /\ wrappers' = [wrappers EXCEPT ![w].mixerChannel = call.m_mixerChannel]
             /\ channels' = call.channels
             /\ cache' = call.cache
             /\ handedOut' = handedOut \cup {[part |-> wrappers[w].part,
                                               channel |-> call.returned]}
    /\ UNCHANGED <<build, other, mixerState, soloMute>>

CacheNext ==
    \/ NewWrapper
    \/ MixerChannelCall

CacheSpec == Init /\ [][CacheNext]_vars

----------------------------------------------------------------------------
(* apiv1::MixerChannel: the operations on one channel and their callbacks *)

\* at most so many availableInputResources() promises of the channel are in
\* flight at a time
MaxRequests == 1

\* a float that is not a number; the other floats are integers: decibels for
\* a volume, tenths for a balance
NaN == 1000

\* a < b on floats: false when either side is not a number
Less(a, b) == a # NaN /\ b # NaN /\ a < b

\* std::min(a, b) and std::max(a, b): the first argument unless the second
\* one is less, respectively greater
std_min(a, b) == IF Less(b, a) THEN b ELSE a
std_max(a, b) == IF Less(a, b) THEN b ELSE a

\* std::max(lo, std::min(hi, value)) with the upper limit left out
Clamp_NoUpper(lo, hi, value) == std_max(lo, value)

\* lines 244 and 274: std::max(lo, std::min(hi, value))
Clamp(lo, hi, value) == std_max(lo, std_min(hi, value))

\* the arguments plugins pass
VolumeArgs == {-100, 0, 13, NaN}
BalanceArgs == {-11, 5, 11, NaN}
SoundArgs == {AvailableResources[1], AvailableResources[2], "no such sound"}
ProgramArgs == {-1, 0, 127, 128}
BankArgs == {-5, 0}

\* the output parameters the audio system may report for the track
AudioOutputParams ==
    {[volume |-> -6, balance |-> 0, muted |-> FALSE, solo |-> FALSE],
     [volume |-> 0, balance |-> -3, muted |-> TRUE, solo |-> FALSE]}

\* the decimal digits as characters
DigitChars == <<"0", "1", "2", "3", "4", "5", "6", "7", "8", "9">>

\* the decimal digits of n >= 0, without leading zeros
RECURSIVE Digits(_)
Digits(n) ==
    IF n < 10 THEN <<DigitChars[n + 1]>>
    ELSE Digits(n \div 10) \o <<DigitChars[(n % 10) + 1]>>

\* std::to_string(int): a sign for a negative number, then its digits
to_string(n) == IF n < 0 THEN <<"-">> \o Digits(-n) ELSE Digits(n)

\* the number a sequence of digit characters denotes
RECURSIVE DigitsValue(_)
DigitsValue(s) ==
    IF s = <<>> THEN 0
    ELSE 10 * DigitsValue(SubSeq(s, 1, Len(s) - 1))
             + (CHOOSE d \in 0..9 : DigitChars[d + 1] = s[Len(s)])

\* std::stoi of a string made of an optional sign and digits
stoi(s) == IF s[1] = "-" THEN -DigitsValue(Tail(s)) ELSE DigitsValue(s)

\* configuration[key] = value
ConfigurationSet(configuration, key, value) ==
    [k \in DOMAIN configuration \cup {key} |->
        IF k = key THEN value ELSE configuration[k]]

\* lines 231-238: volume()
MixerChannel_volume ==
    IF mixer.m_outputParamsValid THEN mixer.m_cachedOutputParams.volume ELSE DefaultVolume

\* lines 265-269: balance()
MixerChannel_balance ==
    IF mixer.m_outputParamsValid THEN mixer.m_cachedOutputParams.balance ELSE DefaultBalance

\* lines 470-483 and 512-525: midiProgram() and midiBank(), on the members m
ConfigurationNumber(m, key) ==
    IF ~m.m_inputParamsValid THEN -1
    ELSE IF key \in DOMAIN m.m_cachedInputParams.configuration
    THEN stoi(m.m_cachedInputParams.configuration[key])
    ELSE -1

MixerChannel_midiProgram == ConfigurationNumber(mixer, "midiProgram")
MixerChannel_midiBank == ConfigurationNumber(mixer, "midiBank")

\* lines 251-260 (and the like in every setter): there is a playback service
\* and audioTrackId() is not -1
Reaches == env.pb /\ env.trackId # InvalidId

\* what the operations on the channel leave alone
beyondMixer == <<build, other, wrappers, channels, cache, handedOut, soloMute>>

\* lines 246-261 (and the like in setBalance, setMuted, setSolo): the cache is
\* updated and valid, and the cached parameters are sent if the track is reached
SetOutputParams(op, arg, params) ==
    /\ mixer' = [mixer EXCEPT !.m_cachedOutputParams = params,
                              !.m_outputParamsValid = TRUE]
    /\ out' = [op |-> op, arg |-> arg, ret |-> "void",
               sent |-> IF Reaches THEN "setOutputParams" ELSE "nothing"]
    /\ UNCHANGED <<env, sounds, async, audio, beyondMixer>>

\* lines 240-261
setVolume(volume) ==
    SetOutputParams("setVolume", volume,
        [mixer.m_cachedOutputParams EXCEPT !.volume = Clamp(MinVolume, MaxVolume, volume)])

\* lines 271-293
setBalance(balance) ==
    SetOutputParams("setBalance", balance,
        [mixer.m_cachedOutputParams EXCEPT !.balance = Clamp(MinBalance, MaxBalance, balance)])

\* lines 301-320
setMuted(muted) ==
    SetOutputParams("setMuted", muted, [mixer.m_cachedOutputParams EXCEPT !.muted = muted])

\* lines 328-347
setSolo(solo) ==
    SetOutputParams("setSolo", solo, [mixer.m_cachedOutputParams EXCEPT !.solo = solo])

\* a callback of the channel has run
CallbackRan(op, arg, sent) == out' = [op |-> op, arg |-> arg, ret |-> "void", sent |-> sent]

\* lines 171-175: the promise of outputParams() resolves
OutputParamsResolved ==
    /\ "outputParams" \in async.loading
    /\ \E params \in AudioOutputParams :
          mixer' = [mixer EXCEPT !.m_cachedOutputParams = params,
                                 !.m_outputParamsValid = TRUE]
    /\ async' = [async EXCEPT !.loading = @ \ {"outputParams"}]
    /\ CallbackRan("outputParams.onResolve", <<>>, "nothing")
    /\ UNCHANGED <<env, sounds, audio, beyondMixer>>

\* lines 176-178: the promise of outputParams() is rejected
OutputParamsRejected ==
    /\ "outputParams" \in async.loading
    /\ async' = [async EXCEPT !.loading = @ \ {"outputParams"}]
    /\ CallbackRan("outputParams.onReject", <<>>, "nothing")
    /\ UNCHANGED <<env, mixer, sounds, audio, beyondMixer>>

\* lines 209-216: the output parameters of a track have changed
OutputParamsChanged ==
    /\ async.subscribed
    /\ \E changedTrackId \in {1, 2}, params \in AudioOutputParams :
          /\ mixer' = IF changedTrackId = async.trackId
                      THEN [mixer EXCEPT !.m_cachedOutputParams = params,
                                         !.m_outputParamsValid = TRUE]
                      ELSE mixer
          /\ CallbackRan("outputParamsChanged.onReceive", <<>>, "nothing")
    /\ UNCHANGED <<env, sounds, async, audio, beyondMixer>>

\* line 165 ("plugin opened before playback initialized"): the playback
\* service and the part's track become available
PlaybackStarts ==
    /\ ~Reaches
    /\ env' = [pb |-> TRUE, trackId |-> 1]
    /\ UNCHANGED <<mixer, sounds, async, audio, out, beyondMixer>>

\* lines 149-153: invalidateCache(), on the members m
Invalidated(m) == [m EXCEPT !.m_currentSoundCacheValid = FALSE]

\* the requests in flight without the i-th
Without(requests, i) == SubSeq(requests, 1, i - 1) \o SubSeq(requests, i + 1, Len(requests))

\* the AudioResource objects of a list
Objects(list) == {list[i].object : i \in 1..Len(list)}

\* new AudioResource(meta, nullptr) for each resource, in order: objects that
\* are in no list (the names of deleted objects are used again)
NewSounds ==
    LET object == CHOOSE o \in 1..3 :
                      o \notin Objects(sounds.list) \cup Objects(sounds.returned.list)
    IN [i \in 1..Len(AvailableResources) |->
           [object |-> object, id |-> AvailableResources[i]]]

\* lines 349-396: availableSounds(); qDeleteAll and clear leave the empty
\* list, the objects of the old one deleted
availableSounds ==
    /\ (~sounds.valid /\ env.pb) => Len(async.requests) < MaxRequests
    /\ IF sounds.valid
       THEN /\ out' = [op |-> "availableSounds", arg |-> <<>>, ret |-> sounds.list,
                       sent |-> "nothing"]
            /\ sounds' = [sounds EXCEPT !.returned = [called |-> TRUE, list |-> sounds.list]]
            /\ UNCHANGED async
       ELSE IF ~env.pb
       THEN /\ sounds' = [valid |-> TRUE, list |-> <<>>,
                          returned |-> [called |-> TRUE, list |-> <<>>]]
            /\ out' = [op |-> "availableSounds", arg |-> <<>>, ret |-> <<>>,
                       sent |-> "nothing"]
            /\ UNCHANGED async
       ELSE /\ sounds' = [sounds EXCEPT !.list = <<>>,
                                        !.returned = [called |-> TRUE, list |-> <<>>]]
            /\ async' = [async EXCEPT !.requests =
                            Append(@, [kind |-> "availableSounds", resourceId |-> ""])]
            /\ out' = [op |-> "availableSounds", arg |-> <<>>, ret |-> <<>>,
                       sent |-> "availableInputResources"]
    /\ UNCHANGED <<env, mixer, audio, beyondMixer>>

\* lines 373-388: the promise of availableSounds() resolves
AvailableSoundsResolved ==
    /\ \E i \in 1..Len(async.requests) :
          /\ async.requests[i].kind = "availableSounds"
          /\ async' = [async EXCEPT !.requests = Without(@, i)]
    /\ sounds' = [sounds EXCEPT !.valid = TRUE, !.list = NewSounds]
    /\ CallbackRan("availableSounds.onResolve", <<>>, "nothing")
    /\ UNCHANGED <<env, mixer, audio, beyondMixer>>

\* lines 389-391 and 463-465: a promise of availableInputResources() is rejected
RequestRejected ==
    /\ \E i \in 1..Len(async.requests) :
          /\ async' = [async EXCEPT !.requests = Without(@, i)]
          /\ CallbackRan("onReject", <<>>, "nothing")
    /\ UNCHANGED <<env, mixer, sounds, audio, beyondMixer>>

\* lines 398-419: currentSound()
currentSound ==
    /\ IF mixer.m_currentSoundCacheValid /\ mixer.m_cachedCurrentSound # NullSound
       THEN /\ out' = [op |-> "currentSound", arg |-> <<>>,
                       ret |-> mixer.m_cachedCurrentSound, sent |-> "nothing"]
            /\ UNCHANGED mixer
       ELSE IF ~mixer.m_inputParamsValid
       THEN /\ mixer' = [mixer EXCEPT !.m_cachedCurrentSound = NullSound]
            /\ out' = [op |-> "currentSound", arg |-> <<>>, ret |-> NullSound,
                       sent |-> "nothing"]
       ELSE /\ mixer' = [mixer EXCEPT
                            !.m_cachedCurrentSound = mixer.m_cachedInputParams.resourceMeta,
                            !.m_currentSoundCacheValid = TRUE]
            /\ out' = [op |-> "currentSound", arg |-> <<>>,
                       ret |-> mixer.m_cachedInputParams.resourceMeta, sent |-> "nothing"]
    /\ UNCHANGED <<env, sounds, async, audio, beyondMixer>>

\* lines 421-435 and 467: setSound(resourceId) up to its return
setSound(resourceId) ==
    /\ Reaches => Len(async.requests) < MaxRequests
    /\ IF ~env.pb \/ env.trackId = InvalidId
       THEN /\ out' = [op |-> "setSound", arg |-> <<>>, ret |-> FALSE,
                       sent |-> "nothing"]
            /\ UNCHANGED async
       ELSE /\ async' = [async EXCEPT !.requests =
                            Append(@, [kind |-> "setSound", resourceId |-> resourceId])]
            /\ out' = [op |-> "setSound", arg |-> <<>>, ret |-> TRUE,
                       sent |-> "availableInputResources"]
    /\ UNCHANGED <<env, mixer, sounds, audio, beyondMixer>>

\* lines 437-446: the resource of that id is among the resources
Found(resourceId) ==
    \E j \in 1..Len(AvailableResources) : AvailableResources[j] = resourceId

\* lines 436-463: the promise of the i-th request, one of setSound, resolves
SetSoundResolvedAt(i) ==
    /\ i \in 1..Len(async.requests)
    /\ async.requests[i].kind = "setSound"
    /\ async' = [async EXCEPT !.requests = Without(@, i)]
    /\ IF ~Found(async.requests[i].resourceId)
       THEN /\ CallbackRan("setSound.onResolve", <<>>, "nothing")
            /\ UNCHANGED <<mixer, sounds, audio>>
       ELSE LET params == [mixer.m_cachedInputParams EXCEPT
                              !.resourceMeta = async.requests[i].resourceId]
            IN /\ mixer' = Invalidated([mixer EXCEPT !.m_cachedInputParams = params,
                                                     !.m_inputParamsValid = TRUE])
               /\ sounds' = [sounds EXCEPT !.valid = FALSE, !.returned = NotCalled]
               /\ audio' = [audio EXCEPT !.inputParams = params]
               /\ CallbackRan("setSound.onResolve", <<>>, "setInputParams")
    /\ UNCHANGED <<env, beyondMixer>>

SetSoundResolved == \E i \in 1..MaxRequests : SetSoundResolvedAt(i)

\* line 487: the program is no MIDI program number; never so
InvalidProgram_Never(program) == FALSE

\* line 487: the program is no MIDI program number; with 128 taken for one
InvalidProgram_Above128(program) == program < 0 \/ program > 128

\* line 487
InvalidProgram(program) == program < 0 \/ program > 127

\* lines 492-509 and 529-546: the configuration key is set to the number's
\* string and the cached parameters are valid; they are sent, and true is
\* returned, if the track is reached
SetConfiguration(op, key, number) ==
    LET params == [mixer.m_cachedInputParams EXCEPT
                      !.configuration = ConfigurationSet(@, key, to_string(number))]
    IN /\ mixer' = [mixer EXCEPT !.m_cachedInputParams = params,
                                 !.m_inputParamsValid = TRUE]
       /\ audio' = IF Reaches THEN [audio EXCEPT !.inputParams = params] ELSE audio
       /\ out' = [op |-> op, arg |-> <<>>, ret |-> Reaches,
                  sent |-> IF Reaches THEN "setInputParams" ELSE "nothing"]

\* lines 485-510
setMidiProgram(program) ==
    /\ IF InvalidProgram(program)
       THEN /\ out' = [op |-> "setMidiProgram", arg |-> <<>>, ret |-> FALSE,
                       sent |-> "nothing"]
            /\ UNCHANGED <<mixer, audio>>
       ELSE SetConfiguration("setMidiProgram", "midiProgram", program)
    /\ UNCHANGED <<env, sounds, async, beyondMixer>>

\* lines 527-547
setMidiBank(bank) ==
    /\ SetConfiguration("setMidiBank", "midiBank", bank)
    /\ UNCHANGED <<env, sounds, async, beyondMixer>>

\* lines 183-186 and 223-226: input parameters of the track arrive
InputParamsArrive(params) ==
    /\ mixer' = Invalidated([mixer EXCEPT !.m_cachedInputParams = params,
                                          !.m_inputParamsValid = TRUE])
    /\ sounds' = [sounds EXCEPT !.valid = FALSE, !.returned = NotCalled]

\* lines 181-187: the promise of inputParams() resolves
InputParamsResolved ==
    /\ "inputParams" \in async.loading
    /\ InputParamsArrive(audio.inputParams)
    /\ async' = [async EXCEPT !.loading = @ \ {"inputParams"}]
    /\ CallbackRan("inputParams.onResolve", <<>>, "nothing")
    /\ UNCHANGED <<env, audio, beyondMixer>>

\* lines 188-190: the promise of inputParams() is rejected
InputParamsRejected ==
    /\ "inputParams" \in async.loading
    /\ async' = [async EXCEPT !.loading = @ \ {"inputParams"}]
    /\ CallbackRan("inputParams.onReject", <<>>, "nothing")
    /\ UNCHANGED <<env, mixer, sounds, audio, beyondMixer>>

\* lines 219-228: the input parameters of a track have changed
InputParamsChanged ==
    /\ async.subscribed
    /\ \E changedTrackId \in {1, 2} :
          /\ IF changedTrackId = async.trackId
             THEN InputParamsArrive(audio.inputParams)
             ELSE UNCHANGED <<mixer, sounds>>
          /\ CallbackRan("inputParamsChanged.onReceive", <<>>, "nothing")
    /\ UNCHANGED <<env, async, audio, beyondMixer>>

\* another controller of the track (the mixer panel) chooses a sound for it
SoundChosenElsewhere ==
    /\ \E j \in 1..Len(AvailableResources) :
          /\ AvailableResources[j] # audio.inputParams.resourceMeta
          /\ audio' = [audio EXCEPT !.inputParams.resourceMeta = AvailableResources[j]]
    /\ UNCHANGED <<env, mixer, sounds, async, out, beyondMixer>>

\* a plugin holds a MixerChannel constructed in any environment
ChannelInit ==
    /\ chord = PlainInput.chord
    /\ ctx = MakeContext(PlainInput.score, PlainInput.prof, PlainInput.startTick,
                         PlainInput.endTick, PlainInput.offset)
    /\ spannerMap = PlainInput.spannerMap
    /\ profile = PlainInput.profile
    /\ result0 = PlainInput.result0
    /\ result = PlainInput.result0
    /\ features = 0
    /\ pc = "prepare"
    /\ handed = <<>>
    /\ calls = <<>>
    /\ other = NoBuild
    /\ wrappers = <<>>
    /\ channels = <<>>
    /\ cache = {}
    /\ handedOut = {}
    /\ \E e \in Environments, sequenceId \in SequenceIds : Constructed(e, sequenceId)
    /\ NothingStored

\* the operations on the output parameters and their callbacks
OutputNext ==
    \/ \E volume \in VolumeArgs : setVolume(volume)
    \/ \E balance \in BalanceArgs : setBalance(balance)
    \/ \E muted \in BOOLEAN : setMuted(muted)
    \/ \E solo \in BOOLEAN : setSolo(solo)
    \/ OutputParamsResolved
    \/ OutputParamsRejected
    \/ OutputParamsChanged
    \/ PlaybackStarts

OutputSpec == ChannelInit /\ [][OutputNext]_vars

\* the operations on the input parameters and their callbacks
InputNext ==
    \/ availableSounds
    \/ AvailableSoundsResolved
    \/ RequestRejected
    \/ currentSound
    \/ \E resourceId \in SoundArgs : setSound(resourceId)
    \/ SetSoundResolved
    \/ \E program \in ProgramArgs : setMidiProgram(program)
    \/ \E bank \in BankArgs : setMidiBank(bank)
    \/ InputParamsResolved
    \/ InputParamsRejected
    \/ InputParamsChanged
    \/ SoundChosenElsewhere
    \/ PlaybackStarts

InputSpec == ChannelInit /\ [][InputNext]_vars

----------------------------------------------------------------------------
(* Properties of repeated and interleaved builds *)

\* both builds have returned
BothBuilt == pc = "done" /\ other.pc = "done"

Contributing == SelectSeq(spannerMap, Contributes)

\* the timestamp and the duration of a spanner's overlap with the chord's window
OverlapTimestamp(sp) ==
    timestampFromTicks(Max(sp.start, ctx.nominalPositionStartTick) + ctx.positionTickOffset)
OverlapDuration(sp) ==
    timestampFromTicks(Min(sp.stop, ctx.nominalPositionEndTick) + ctx.positionTickOffset)
        - OverlapTimestamp(sp)

----------------------------------------------------------------------------
(* Properties of Part::mixerChannel *)

\* the channels handed out for real parts
HandedOutChannels == {h \in handedOut : h.part # NullPart}

C15_AsClaimed ==
    \A a, b \in HandedOutChannels :
        a.part.score # b.part.score => a.channel # b.channel

----------------------------------------------------------------------------
(* Properties of MixerChannel *)

\* r is the float v brought into lo..hi: a number of that range, and the
\* nearest one to v of that range when v is a number
ClampedTo(lo, hi, v, r) ==
    /\ r # NaN /\ lo <= r /\ r <= hi
    /\ (v # NaN /\ v < lo) => r = lo
    /\ (v # NaN /\ v > hi) => r = hi
    /\ (v # NaN /\ lo <= v /\ v <= hi) => r = v

\* C16: immediately after setVolume(v), volume() returns v clamped to
\* [-60, 12] dB, and immediately after setBalance(b), balance() returns b
\* clamped to [-1, 1] (tenths: -10..10), with or without a playback service
\* and an audio track.
C16_SettersClamp ==
    /\ out.op = "setVolume" => ClampedTo(-60, 12, out.arg, MixerChannel_volume)
    /\ out.op = "setBalance" => ClampedTo(-10, 10, out.arg, MixerChannel_balance)

\* without a playback service, setVolume has been called with a volume above
\* the range and then setBalance with a balance below the range
C16_Witness ==
    /\ ~env.pb
    /\ out.op = "setBalance" /\ out.arg = -11 /\ out.sent = "nothing"
    /\ MixerChannel_balance = -10
    /\ MixerChannel_volume = 12

\* C17 as claimed: setSound(resourceId) with an id of no available resource
\* returns false, and neither the call nor the resolution of its promise
\* changes the cached input parameters or the current sound or sends
\* parameters to the audio system.
C17_AsClaimed ==
    [][/\ \A resourceId \in SoundArgs :
             (~Found(resourceId) /\ setSound(resourceId))
                 => /\ out'.ret = FALSE
                    /\ mixer' = mixer /\ audio' = audio
                    /\ out'.sent # "setInputParams"
       /\ \A i \in 1..Len(async.requests) :
             (~Found(async.requests[i].resourceId) /\ SetSoundResolvedAt(i))
                 => /\ mixer' = mixer /\ audio' = audio
                    /\ out'.sent = "nothing"]_vars

\* C18: setMidiProgram(p) with p < 0 or p > 127 returns false, leaves the
\* cached input parameters and their validity flag as they were and sends
\* nothing to the audio system.
C18_InvalidProgramRejected ==
    [][\A program \in ProgramArgs :
          ((program < 0 \/ program > 127) /\ setMidiProgram(program))
              => /\ out'.ret = FALSE
                 /\ mixer'.m_cachedInputParams = mixer.m_cachedInputParams
                 /\ mixer'.m_inputParamsValid = mixer.m_inputParamsValid
                 /\ out'.sent = "nothing"
                 /\ audio' = audio]_vars

\* the track is reached and holds program 127, sent by the channel; the last
\* operation was a setMidiProgram that returned false and sent nothing: one
\* with a program outside 0..127
C18_Witness ==
    /\ Reaches
    /\ "midiProgram" \in DOMAIN audio.inputParams.configuration
    /\ audio.inputParams.configuration["midiProgram"] = to_string(127)
    /\ out.op = "setMidiProgram" /\ out.ret = FALSE /\ out.sent = "nothing"
    /\ MixerChannel_midiProgram = 127

\* C19: after any sequence of operations on the channel, midiProgram()
\* returns -1 or a program number in 0..127.
C19_MidiProgramRange ==
    MixerChannel_midiProgram = -1 \/ MixerChannel_midiProgram \in 0..127

\* program 127 is still what midiProgram() returns after a setSound took
\* effect and sent the input parameters
C19_Witness ==
    /\ out.op = "setSound.onResolve" /\ out.sent = "setInputParams"
    /\ mixer.m_cachedInputParams.resourceMeta = AvailableResources[2]
    /\ MixerChannel_midiProgram = 127

\* C20 as claimed: after any sequence of operations on the channel, setMidiBank
\* with any integer among them, midiBank() returns -1 or a non-negative bank
\* number.
C20_AsClaimed ==
    MixerChannel_midiBank = -1 \/ MixerChannel_midiBank >= 0

\* C21 as claimed: an availableSounds() call that follows another one, with
\* no change of the input parameters in between, returns the list the first
\* one returned (the same length, the same AudioResource objects), and leaves
\* every object of that list alive.
C21_AsClaimed ==
    [][(sounds.returned.called /\ availableSounds)
          => /\ out'.ret = sounds.returned.list
             /\ Objects(sounds.returned.list) \subseteq Objects(sounds'.list)]_vars

----------------------------------------------------------------------------
(* The order of the sub-parsers and of the finalization *)

\* the sub-parser of the given name
SubParser(name, ch, c, res) ==
    CASE name = "parseSpanners" -> parseSpanners(ch, c, res)
      [] name = "parseAnnotations" -> parseAnnotations(ch, c, res)
      [] name = "parseTremolo" -> parseTremolo(ch, c, res)
      [] name = "parseArpeggio" -> parseArpeggio(ch, c, res)
      [] name = "parseGraceNotes" -> parseGraceNotes(ch, c, res)
      [] name = "parseChordLine" -> parseChordLine(ch, c, res)
      [] name = "parseArticulationSymbols" -> parseArticulationSymbols(ch, c, res)
      [] name = "parseTapping" -> parseTapping(ch, c, res)

\* what one sub-parser contributes for the chord of the build, on its own
Contribution(name) == SubParser(name, chord, ctx, <<>>)

\* the build has passed the guard and every sub-parser has returned
Parsed == ~Guard(chord, ctx) /\ pc \in {"occupiedRange", "preCalculateAverageData", "done"}

\* how often a step occurs among the calls of the build
Times(name) == Cardinality({i \in 1..Len(calls) : calls[i] = name})

\* C22: for a present chord and a valid context the sub-parsers run once each
\* in the order spanners, annotations, tremolo, arpeggio, grace notes,
\* chord-line, articulation symbols, tapping, and when the last one returns the
\* map holds the passed-in entries followed by what each contributes, in that
\* order.
C22_FixedOrder ==
    LET order == <<"parseSpanners", "parseAnnotations", "parseTremolo", "parseArpeggio",
                   "parseGraceNotes", "parseChordLine", "parseArticulationSymbols",
                   "parseTapping">>
    IN /\ \A i \in 1..Min(Len(calls), 8) : calls[i] = order[i]
       /\ Parsed => /\ Len(calls) >= 8
                    /\ \A i \in 1..8 : Times(order[i]) = 1
       /\ (~Guard(chord, ctx) /\ pc = "occupiedRange")
             => result = result0 \o Contribution(order[1]) \o Contribution(order[2])
                                 \o Contribution(order[3]) \o Contribution(order[4])
                                 \o Contribution(order[5]) \o Contribution(order[6])
                                 \o Contribution(order[7]) \o Contribution(order[8])

\* the last sub-parser has returned, and a tremolo, a grace note and a symbol
\* or a tapping have each contributed an entry
C22_Witness ==
    /\ ~Guard(chord, ctx) /\ pc = "occupiedRange"
    /\ Len(calls) = 8
    /\ Contribution("parseTremolo") # <<>> \/ Contribution("parseGraceNotes") # <<>>
    /\ Contribution("parseArticulationSymbols") # <<>> \/ Contribution("parseTapping") # <<>>
    /\ Len(result) >= Len(result0) + 2

\* doParse with its eight calls made in the given order
RECURSIVE doParseInOrder(_, _, _, _)
doParseInOrder(order, ch, c, res) ==
    IF order = <<>> THEN res
    ELSE doParseInOrder(Tail(order), ch, c, SubParser(Head(order), ch, c, res))

\* buildChordArticulationMap past its guard, with doParse in the given order
BuiltInOrder(order) == OccupiedRangeLoop(ctx, doParseInOrder(order, chord, ctx, result0), 1)

\* the order with the calls at positions i and j exchanged
Exchanged(order, i, j) ==
    [k \in 1..Len(order) |-> IF k = i THEN order[j] ELSE IF k = j THEN order[i] ELSE order[k]]

\* the order started at position i and wrapped around
Rotated(order, i) == SubSeq(order, i, Len(order)) \o SubSeq(order, 1, i - 1)

Reversed(order) == [k \in 1..Len(order) |-> order[Len(order) + 1 - k]]

\* the orders compared: every exchange of two calls, every rotation, and the
\* reverse order, so that any two sub-parsers run in both relative orders
Orders ==
    LET order == <<"parseSpanners", "parseAnnotations", "parseTremolo", "parseArpeggio",
                   "parseGraceNotes", "parseChordLine", "parseArticulationSymbols",
                   "parseTapping">>
    IN {Exchanged(order, i, j) : i, j \in 1..8}
       \cup {Rotated(order, i) : i \in 1..8}
       \cup {Reversed(order)}

\* the entries of a map as a set
EntrySet(res) == {res[i] : i \in 1..Len(res)}

\* the types among the entries of a map
TypesOf(res) == {res[i].type : i \in 1..Len(res)}

\* C23: the set of entries of the finalized map (types, timestamps, durations,
\* patterns, occupied ranges) is the same whatever the order in which the
\* eight sub-parsers run, also when two of them contribute the same type.
C23_OrderIndependent ==
    Built => \A order \in Orders : EntrySet(BuiltInOrder(order)) = EntrySet(result)

\* a build in which the grace notes and another sub-parser have contributed
\* different entries of one type, and an order that changes the sequence
C23_Witness ==
    /\ Built
    /\ \E name \in {"parseSpanners", "parseArticulationSymbols", "parseTremolo"} :
          /\ TypesOf(Contribution(name)) \cap TypesOf(Contribution("parseGraceNotes")) # {}
          /\ Contribution(name) # Contribution("parseGraceNotes")
    /\ \E order \in Orders : BuiltInOrder(order) # result

\* clamp(delta / duration, 0, 1) in hundredths of a percent, 0 for a duration
\* that is not positive
ClampedFraction(delta, duration) ==
    IF duration <= 0 \/ delta <= 0 THEN 0
    ELSE IF delta >= duration THEN HUNDRED_PERCENT
    ELSE (delta * HUNDRED_PERCENT) \div duration

\* the entry with the occupied range of the chord's window over its own timeline
WithOwnRange(entry) ==
    [entry EXCEPT
        !.rangeSet = TRUE,
        !.occupiedFrom = ClampedFraction(ctx.nominalTimestamp - entry.timestamp,
                                         entry.overallDuration),
        !.occupiedTo = ClampedFraction(ctx.nominalTimestamp + ctx.nominalDuration
                                           - entry.timestamp, entry.overallDuration)]

\* the entry with the occupied range of the other entry
WithRangeOf(entry, from) ==
    [entry EXCEPT !.rangeSet = from.rangeSet, !.occupiedFrom = from.occupiedFrom,
                  !.occupiedTo = from.occupiedTo]

\* the position of the last entry of the type of entry i
LastOfType(res, i) ==
    CHOOSE j \in i..Len(res) :
        /\ res[j].type = res[i].type
        /\ \A k \in (j + 1)..Len(res) : res[k].type # res[i].type

----------------------------------------------------------------------------
(* The spanner's context and the ornaments of the chord *)

\* the intervals of the query whose spanner passes the checks of lines 107-123
PassingIntervals ==
    SelectSeq(SpannerIntervals(ctx), LAMBDA iv : SpannerPasses(chord, ctx, iv.value))

\* parseSpanners has just returned to doParse
SpannersParsed == ~Guard(chord, ctx) /\ pc = "parseAnnotations"

\* the entries parseSpanners has appended
SpannerEntries == SubSeq(result, Len(result0) + 1, Len(result))

\* C25 as claimed: the context handed to the spanner sub-parser has the
\* timestamp of the tick max(spanner start, chord window start +
\* positionTickOffset), the spanner's playable duration clipped to the overlap
\* with the chord's window, and end tick = start tick + that duration.
C25_AsClaimed ==
    SpannersParsed =>
        \A k \in 1..Len(PassingIntervals) :
            LET sp == PassingIntervals[k].value
                sc == SpannerContext(ctx, PassingIntervals[k])
                overlap == Min(sp.stop, ctx.nominalPositionEndTick)
                               - Max(sp.start, ctx.nominalPositionStartTick)
            IN /\ sc.nominalTimestamp =
                      timestampFromTicks(Max(sp.start, ctx.nominalPositionStartTick
                                                           + ctx.positionTickOffset))
               /\ sc.nominalDurationTicks = Min(sp.stop - sp.start, overlap)
               /\ sc.nominalPositionEndTick = sc.nominalPositionStartTick
                                                  + sc.nominalDurationTicks

\* C25: the context handed to the spanner sub-parser has the timestamp of the
\* tick max(spanner start, chord window start) + positionTickOffset, start
\* tick max(spanner start, chord window start), the spanner's playable
\* duration clipped to the overlap with the chord's window, and end tick =
\* start tick + that duration; the spanner's entry carries that timestamp.
C25_SpannerContext ==
    SpannersParsed =>
        /\ Len(handed) = Len(PassingIntervals)
        /\ \A k \in 1..Len(PassingIntervals) :
              LET sp == PassingIntervals[k].value
                  sc == SpannerContext(ctx, PassingIntervals[k])
                  overlapStart == Max(sp.start, ctx.nominalPositionStartTick)
                  overlap == Min(sp.stop, ctx.nominalPositionEndTick) - overlapStart
                  timestamp == timestampFromTicks(overlapStart + ctx.positionTickOffset)
                  type == SpannerArticulationType(sp.kind)
              IN /\ handed[k] = sp
                 /\ sc.nominalTimestamp = timestamp
                 /\ sc.nominalPositionStartTick = overlapStart
                 /\ sc.nominalDurationTicks = Min(sp.stop - sp.start, overlap)
                 /\ sc.nominalPositionEndTick = overlapStart + sc.nominalDurationTicks
                 /\ pattern(type) # <<>>
                       => \E i \in 1..Len(SpannerEntries) :
                              /\ SpannerEntries[i].type = type
                              /\ SpannerEntries[i].timestamp = timestamp

\* a spanner that starts inside the window of a chord with a position offset
\* has been handed on and has its entry
C25_Witness ==
    /\ SpannersParsed
    /\ ctx.positionTickOffset > 0
    /\ Len(handed) = 1
    /\ handed[1].start > ctx.nominalPositionStartTick
    /\ Len(SpannerEntries) = 1
    /\ SpannerEntries[1].timestamp =
           timestampFromTicks(handed[1].start + ctx.positionTickOffset)

\* C26: preCalculateAverageData is invoked exactly once in a call that passes
\* the guard and not at all in one that does not; when it is invoked every
\* sub-parser has returned and the range loop has run over the whole map, and
\* after it nothing is appended and no range is updated.
C26_FinalizedOnceAtTheEnd ==
    [][/\ ("preCalculateAverageData" \in {calls'[i] : i \in 1..Len(calls')}
              /\ ~HasRun("preCalculateAverageData"))
          => /\ calls' = Append(calls, "preCalculateAverageData")
             /\ \A i \in 1..Len(SubParsers) : Times(SubParsers[i]) = 1
             /\ result = OccupiedRangeLoop(ctx, doParse(chord, ctx, result0), 1)
             /\ result' = result
             /\ pc' = "done"
       /\ HasRun("preCalculateAverageData") => (calls' = calls /\ result' = result)
       /\ (pc' = "done" /\ pc # "done")
             => Times("preCalculateAverageData")' = (IF Guard(chord, ctx) THEN 0 ELSE 1)]_vars

\* a build with a spanner entry and another entry has run the range loop and
\* then preCalculateAverageData
C26_Witness ==
    /\ Built
    /\ Times("preCalculateAverageData") = 1
    /\ calls[Len(calls)] = "preCalculateAverageData"
    /\ \E i, j \in (Len(result0) + 1)..Len(result) :
          /\ result[i].rangeSet
          /\ ~result[j].rangeSet

\* the entry of the given type at the chord's own timestamp and duration, its
\* range unset
EntryAtChord(type) ==
    [type |-> type, pattern |-> <<type>>, timestamp |-> ctx.nominalTimestamp,
     overallDuration |-> ctx.nominalDuration,
     rangeSet |-> FALSE, occupiedFrom |-> 0, occupiedTo |-> 0]

\* C27: when the single-chord tremolo is absent or not playable and a playable
\* two-chord tremolo is present, parseTremolo appends one entry of the type of
\* the two-chord tremolo's sub-type; when neither tremolo is playable, or the
\* sub-type resolved is invalid, or the profile has no pattern for the type,
\* it appends nothing.
C27_TremoloFallback ==
    [][ParseTremolo
          => LET single == chord.tremoloSingleChord
                 two == chord.tremoloTwoChord
                 singlePlays == single.present /\ single.playTremolo
                 twoPlays == two.present /\ two.playTremolo
                 subType == IF singlePlays THEN single.tremoloType ELSE two.tremoloType
                 type == CASE subType \in {"R8", "C8"} -> "Tremolo8th"
                           [] subType \in {"R16", "C16"} -> "Tremolo16th"
                           [] subType = "BUZZ_ROLL" -> "TremoloBuzz"
                           [] OTHER -> Undefined
             IN /\ (~singlePlays /\ ~twoPlays) => result' = result
                /\ type = Undefined => result' = result
                /\ type \notin profile => result' = result
                /\ (~singlePlays /\ twoPlays /\ type # Undefined /\ type \in profile)
                      => result' = Append(result, EntryAtChord(type))]_vars

\* the chord's single-chord tremolo is not playable, and parseTremolo has
\* appended the entry of its playable two-chord tremolo
C27_Witness ==
    /\ ~Guard(chord, ctx) /\ pc = "parseArpeggio"
    /\ chord.tremoloSingleChord.present /\ ~chord.tremoloSingleChord.playTremolo
    /\ chord.tremoloSingleChord.tremoloType = "R8"
    /\ chord.tremoloTwoChord.present /\ chord.tremoloTwoChord.playTremolo
    /\ chord.tremoloTwoChord.tremoloType = "C16"
    /\ result = <<EntryAtChord("Tremolo16th")>>

\* C28: parseTapping appends exactly one entry, LeftHandTapping for the left
\* hand and RightHandTapping for the right hand, at the chord's timestamp and
\* with the chord's duration, if and only if the chord has a tapping that is
\* playable, of the left or the right hand, and the profile has a pattern for
\* the type; otherwise it appends nothing.
C28_TappingEntry ==
    [][ParseTapping
          => LET tapping == chord.tapping
                 type == IF tapping.hand = "LEFT" THEN "LeftHandTapping"
                         ELSE "RightHandTapping"
                 contributes == /\ tapping.present
                                /\ tapping.playArticulation
                                /\ tapping.hand \in {"LEFT", "RIGHT"}
                                /\ type \in profile
             IN result' = IF contributes THEN Append(result, EntryAtChord(type))
                          ELSE result]_vars

\* parseTapping has appended the entry of a playable right-hand tapping to a
\* map that another sub-parser had contributed to
C28_Witness ==
    /\ ~Guard(chord, ctx) /\ pc = "occupiedRange"
    /\ chord.tapping.present /\ chord.tapping.playArticulation
    /\ chord.tapping.hand = "RIGHT"
    /\ Len(result) = 2
    /\ result[2] = EntryAtChord("RightHandTapping")

\* the timing of a grace-note chord of the chord of the build: it starts with
\* the chord and lasts one tick, no longer than the chord
ChildContext ==
    MakeContext(ctx.score, ctx.profile, ctx.nominalPositionStartTick,
                Min(ctx.nominalPositionStartTick + 1, ctx.nominalPositionEndTick),
                ctx.positionTickOffset)

\* what the eight sub-parsers append for a grace-note chord
ChildEntries(graceChord) ==
    SubParser("parseSpanners", graceChord, ChildContext, <<>>)
        \o SubParser("parseAnnotations", graceChord, ChildContext, <<>>)
        \o SubParser("parseTremolo", graceChord, ChildContext, <<>>)
        \o SubParser("parseArpeggio", graceChord, ChildContext, <<>>)
        \o SubParser("parseGraceNotes", graceChord, ChildContext, <<>>)
        \o SubParser("parseChordLine", graceChord, ChildContext, <<>>)
        \o SubParser("parseArticulationSymbols", graceChord, ChildContext, <<>>)
        \o SubParser("parseTapping", graceChord, ChildContext, <<>>)

\* the entries of the grace-note chords from the k-th on
RECURSIVE ChildrenEntries(_)
ChildrenEntries(k) ==
    IF k > Len(chord.graceNotes) THEN <<>>
    ELSE ChildEntries(chord.graceNotes[k]) \o ChildrenEntries(k + 1)

----------------------------------------------------------------------------
(* NotationSoloMuteState: the solo/mute store of a notation *)

\* the tracks in the order of the map's keys
TracksInOrder ==
    <<[partId |-> 1, instrumentId |-> "violin"], [partId |-> 2, instrumentId |-> "cello"]>>

\* the operation on the store, the entry find() gave it and what it sent on
\* m_trackSoloMuteStateChanged
Operated(op, trackId, state, found, sent) ==
    m_trackSoloMuteStateChanged' =
        [op |-> op, trackId |-> trackId, state |-> state, found |-> found, sent |-> sent,
         pending |-> <<>>, had |-> {}, ret |-> "void"]

beyondSoloMute == <<build, other, wrappers, channels, cache, handedOut, mixerState>>

\* the signal sent on every store
ShouldSignal_Always(it, state) == TRUE

\* lines 133-141: shouldSignal
ShouldSignal(it, state) ==
    IF it.stored
    THEN LET existing == it.state
             hasCustomVolumeChanged == ~existing.hasCustomVolume /\ state.hasCustomVolume
         IN ~(existing.mute = state.mute /\ existing.solo = state.solo
                  /\ ~hasCustomVolumeChanged)
    ELSE TRUE

\* lines 122-148; SoloMuteState's operator== compares every member
setTrackSoloMuteState(partId, state) ==
    LET it == m_trackSoloMuteStatesMap[partId]
    IN /\ IF it.stored /\ it.state = state
          THEN /\ UNCHANGED m_trackSoloMuteStatesMap
               /\ Operated("setTrackSoloMuteState", partId, state, it, <<>>)
          ELSE /\ m_trackSoloMuteStatesMap' =
                      [m_trackSoloMuteStatesMap EXCEPT
                          ![partId] = [stored |-> TRUE, state |-> state]]
               /\ Operated("setTrackSoloMuteState", partId, state, it,
                           IF ShouldSignal(it, state)
                           THEN <<[trackId |-> partId, state |-> state]>>
                           ELSE <<>>)
       /\ UNCHANGED <<audioSettings, globalContext, beyondSoloMute>>

\* no operation on the store is under way
Returned == m_trackSoloMuteStateChanged.pending = <<>>

SetTrackSoloMuteState ==
    /\ Returned
    /\ \E partId \in InstrumentTrackIds, state \in SoloMuteStates :
          setTrackSoloMuteState(partId, state)

\* lines 150-156
removeTrackSoloMuteState(trackId) ==
    /\ m_trackSoloMuteStatesMap' = [m_trackSoloMuteStatesMap EXCEPT ![trackId] = NotStored]
    /\ Operated("removeTrackSoloMuteState", trackId, DefaultSoloMuteState,
                m_trackSoloMuteStatesMap[trackId], <<>>)
    /\ UNCHANGED <<audioSettings, globalContext, beyondSoloMute>>

RemoveTrackSoloMuteState ==
    /\ Returned
    /\ \E trackId \in InstrumentTrackIds : removeTrackSoloMuteState(trackId)

\* lines 104-108
trackSoloMuteStateExists(partId) == m_trackSoloMuteStatesMap[partId].stored

\* lines 110-120: the stored state, or a default one for a track without
trackSoloMuteState(partId) ==
    IF ~m_trackSoloMuteStatesMap[partId].stored THEN DefaultSoloMuteState
    ELSE m_trackSoloMuteStatesMap[partId].state

\* the tracks the map holds, in the order of its keys
StoredTracks == SelectSeq(TracksInOrder, trackSoloMuteStateExists)

\* clearAllStates with the map left as it is
clearAllStates_KeepsMap ==
    /\ Returned
    /\ UNCHANGED m_trackSoloMuteStatesMap
    /\ m_trackSoloMuteStateChanged' =
           [op |-> "clearAllStates", trackId |-> [partId |-> 0, instrumentId |-> ""],
            state |-> DefaultSoloMuteState, found |-> NotStored, sent |-> <<>>,
            pending |-> StoredTracks, had |-> {StoredTracks[i] : i \in 1..Len(StoredTracks)},
            ret |-> "void"]
    /\ UNCHANGED <<audioSettings, globalContext, beyondSoloMute>>

\* lines 158-166: the track ids are collected and the map is cleared; had is
\* the set of tracks the map held, for comparison
clearAllStates ==
    /\ Returned
    /\ m_trackSoloMuteStatesMap' = [trackId \in InstrumentTrackIds |-> NotStored]
    /\ m_trackSoloMuteStateChanged' =
           [op |-> "clearAllStates", trackId |-> [partId |-> 0, instrumentId |-> ""],
            state |-> DefaultSoloMuteState, found |-> NotStored, sent |-> <<>>,
            pending |-> StoredTracks, had |-> {StoredTracks[i] : i \in 1..Len(StoredTracks)},
            ret |-> "void"]
    /\ UNCHANGED <<audioSettings, globalContext, beyondSoloMute>>

\* lines 168-172: one turn of the loop, the notification of the next track
\* collected, with an empty state
NotifyCleared ==
    /\ m_trackSoloMuteStateChanged.op = "clearAllStates"
    /\ ~Returned
    /\ m_trackSoloMuteStateChanged' =
           [m_trackSoloMuteStateChanged EXCEPT
               !.sent = Append(@, [trackId |-> Head(m_trackSoloMuteStateChanged.pending),
                                   state |-> DefaultSoloMuteState]),
               !.pending = Tail(@)]
    /\ UNCHANGED m_trackSoloMuteStatesMap
    /\ UNCHANGED <<audioSettings, globalContext, beyondSoloMute>>

SoloMuteNext ==
    \/ SetTrackSoloMuteState
    \/ RemoveTrackSoloMuteState
    \/ clearAllStates
    \/ NotifyCleared

SoloMuteSpec == Init /\ [][SoloMuteNext]_vars

\* C30: setTrackSoloMuteState sends the notification, once and with the track
\* and the new state, if and only if the track had no stored state, or the new
\* mute or solo flag differs from the stored one, or hasCustomVolume goes from
\* false to true; a call that changes only volumeDb or balance of an existing
\* state (not the first custom volume) stores the state and sends nothing, and
\* a call with the stored state changes nothing and sends nothing.
C30_NotificationRule ==
    [][LET partId == m_trackSoloMuteStateChanged'.trackId
           state == m_trackSoloMuteStateChanged'.state
       IN (/\ m_trackSoloMuteStateChanged'.op = "setTrackSoloMuteState"
           /\ setTrackSoloMuteState(partId, state))
             => LET it == m_trackSoloMuteStatesMap[partId]
                    sent == m_trackSoloMuteStateChanged'.sent
                    differs == \/ ~it.stored
                               \/ state.mute # it.state.mute
                               \/ state.solo # it.state.solo
                               \/ (~it.state.hasCustomVolume /\ state.hasCustomVolume)
                IN /\ sent = IF differs THEN <<[trackId |-> partId, state |-> state]>>
                             ELSE <<>>
                   /\ (it.stored /\ state = it.state)
                         => m_trackSoloMuteStatesMap' = m_trackSoloMuteStatesMap
                   /\ ~(it.stored /\ state = it.state)
                         => m_trackSoloMuteStatesMap' =
                                [m_trackSoloMuteStatesMap EXCEPT
                                    ![partId] = [stored |-> TRUE, state |-> state]]]_vars

\* a call has changed only the volume of a stored state that had a custom
\* volume: the new state is stored and nothing was sent
C30_Witness ==
    LET call == m_trackSoloMuteStateChanged
    IN /\ call.op = "setTrackSoloMuteState"
       /\ call.found.stored
       /\ call.found.state.hasCustomVolume
       /\ call.state = [call.found.state EXCEPT !.volumeDb = -6]
       /\ call.found.state.volumeDb = 0
       /\ m_trackSoloMuteStatesMap[call.trackId] = [stored |-> TRUE, state |-> call.state]
       /\ call.sent = <<>>

\* the tracks the notifications of the last operation were sent for
Notified == {m_trackSoloMuteStateChanged.sent[i].trackId :
                 i \in 1..Len(m_trackSoloMuteStateChanged.sent)}

\* while and after clearAllStates notifies, the map is empty and the
\* notifications are for tracks it had held, one each, with the default state
ClearedThenNotified ==
    LET call == m_trackSoloMuteStateChanged
    IN call.op = "clearAllStates"
          => /\ \A trackId \in InstrumentTrackIds :
                   /\ ~trackSoloMuteStateExists(trackId)
                   /\ trackSoloMuteState(trackId) = DefaultSoloMuteState
             /\ \A i \in 1..Len(call.sent) :
                   /\ call.sent[i].state = DefaultSoloMuteState
                   /\ call.sent[i].trackId \in call.had
                   /\ \A j \in 1..Len(call.sent) :
                         call.sent[j].trackId = call.sent[i].trackId => j = i
             /\ Returned => Notified = call.had

\* C31: from its first notification on, clearAllStates has left the map empty,
\* so that a listener reading the store during a notification finds no state;
\* every notification carries the default state and goes to a track that had
\* a stored state when clearAllStates was called, no track gets two, and when
\* clearAllStates returns every such track has got one.
C31_ClearedThenNotified ==
    /\ []ClearedThenNotified
    /\ [][clearAllStates
             => m_trackSoloMuteStateChanged'.had =
                    {trackId \in InstrumentTrackIds : trackSoloMuteStateExists(trackId)}]_vars

\* clearAllStates has returned from a store that held a state for one of the
\* two tracks: one notification, for that track
C31_Witness ==
    LET call == m_trackSoloMuteStateChanged
    IN /\ call.op = "clearAllStates"
       /\ Returned
       /\ Cardinality(call.had) = 1
       /\ Len(call.sent) = 1
       /\ call.sent[1].trackId \in call.had
       /\ \A trackId \in InstrumentTrackIds : ~trackSoloMuteStateExists(trackId)

----------------------------------------------------------------------------
(* NotationSoloMuteState::write and read: the audio settings JSON *)

\* the JSON text of a number, and the number of a JSON text
JsonNumber(n) == to_string(n)
JsonToNumber(text) == stoi(text)

\* lines 84-92 without the volume and the balance
SoloMuteStateObject_FlagsOnly(state) == [mute |-> state.mute, solo |-> state.solo]

\* lines 84-92: the "soloMuteState" object of a track
SoloMuteStateObject(state) ==
    IF state.hasCustomVolume
    THEN [mute |-> state.mute, solo |-> state.solo,
          volumeDb |-> JsonNumber(state.volumeDb), balance |-> JsonNumber(state.balance)]
    ELSE [mute |-> state.mute, solo |-> state.solo]

\* lines 75-99: the JSON written for a map, one element of "tracks" per entry;
\* written is the map itself, for comparison
WrittenJson(map) ==
    LET stored == SelectSeq(TracksInOrder, LAMBDA trackId : map[trackId].stored)
    IN [empty |-> FALSE, written |-> map,
        tracks |-> [i \in 1..Len(stored) |->
                       [instrumentId |-> stored[i].instrumentId,
                        partId |-> JsonNumber(stored[i].partId),
                        soloMuteState |-> SoloMuteStateObject(map[stored[i]].state)]]]

\* lines 55-65: the SoloMuteState of a "soloMuteState" object
SoloMuteStateRead(soloMuteObj) ==
    IF "volumeDb" \in DOMAIN soloMuteObj
    THEN [mute |-> soloMuteObj.mute, solo |-> soloMuteObj.solo,
          volumeDb |-> JsonToNumber(soloMuteObj.volumeDb),
          balance |-> IF "balance" \in DOMAIN soloMuteObj
                      THEN JsonToNumber(soloMuteObj.balance) ELSE 0,
          hasCustomVolume |-> TRUE]
    ELSE [DefaultSoloMuteState EXCEPT !.mute = soloMuteObj.mute, !.solo = soloMuteObj.solo]

\* lines 46-68: the loop over "tracks"; emplace leaves an entry the map has
RECURSIVE ReadTracks(_, _)
ReadTracks(tracksArray, map) ==
    IF tracksArray = <<>> THEN map
    ELSE LET trackObject == Head(tracksArray)
             id == [partId |-> JsonToNumber(trackObject.partId),
                    instrumentId |-> trackObject.instrumentId]
             next == IF map[id].stored THEN map
                     ELSE [map EXCEPT ![id] =
                              [stored |-> TRUE,
                               state |-> SoloMuteStateRead(trackObject.soloMuteState)]]
         IN ReadTracks(Tail(tracksArray), next)

\* what the last operation on the store was and what it returned
Returns(op, ret) ==
    m_trackSoloMuteStateChanged' =
        [op |-> op, trackId |-> [partId |-> 0, instrumentId |-> ""],
         state |-> DefaultSoloMuteState, found |-> NotStored, sent |-> <<>>,
         pending |-> <<>>, had |-> {}, ret |-> ret]

\* lines 73-102
write ==
    /\ Returned
    /\ audioSettings.empty
    /\ audioSettings' = WrittenJson(m_trackSoloMuteStatesMap)
    /\ Returns("write", "Ok")
    /\ UNCHANGED <<m_trackSoloMuteStatesMap, globalContext, beyondSoloMute>>

\* lines 36-71
read ==
    /\ Returned
    /\ IF audioSettings.empty
       THEN /\ Returns("read", "UnknownError")
            /\ UNCHANGED m_trackSoloMuteStatesMap
       ELSE /\ m_trackSoloMuteStatesMap' =
                   ReadTracks(audioSettings.tracks, m_trackSoloMuteStatesMap)
            /\ Returns("read", "Ok")
    /\ UNCHANGED <<audioSettings, globalContext, beyondSoloMute>>

\* the states are set before the notation is saved
SetBeforeWrite == audioSettings.empty /\ SetTrackSoloMuteState

PersistNext ==
    \/ SetBeforeWrite
    \/ RemoveTrackSoloMuteState
    \/ clearAllStates
    \/ NotifyCleared
    \/ write
    \/ read

PersistSpec == Init /\ [][PersistNext]_vars

\* the store holds the tracks of the map, each with the map's mute and solo
\* flags and its hasCustomVolume, and with its volumeDb and balance when
\* hasCustomVolume is set
Reproduces(store, map) ==
    \A trackId \in InstrumentTrackIds :
        /\ store[trackId].stored = map[trackId].stored
        /\ map[trackId].stored
              => /\ store[trackId].state.mute = map[trackId].state.mute
                 /\ store[trackId].state.solo = map[trackId].state.solo
                 /\ store[trackId].state.hasCustomVolume = map[trackId].state.hasCustomVolume
                 /\ map[trackId].state.hasCustomVolume
                       => /\ store[trackId].state.volumeDb = map[trackId].state.volumeDb
                          /\ store[trackId].state.balance = map[trackId].state.balance

\* the store holds no state
EmptyStore == \A trackId \in InstrumentTrackIds : ~trackSoloMuteStateExists(trackId)

\* C32: read of what write has put out, into an empty store, gives the tracks
\* that were written, each with the mute and solo flags written, and with
\* hasCustomVolume set and the volumeDb and balance written exactly for the
\* tracks whose hasCustomVolume was set; read of an empty JSON returns an
\* error and leaves the stored states as they were.
C32_RoundTrip ==
    [][read => IF audioSettings.empty
               THEN /\ m_trackSoloMuteStateChanged'.ret = "UnknownError"
                    /\ m_trackSoloMuteStatesMap' = m_trackSoloMuteStatesMap
               ELSE EmptyStore
                       => /\ m_trackSoloMuteStateChanged'.ret = "Ok"
                          /\ Reproduces(m_trackSoloMuteStatesMap', audioSettings.written)]_vars

\* an empty store has read a file written from a track with a custom volume
\* and balance and a track without, whose own volume was not written
C32_Witness ==
    LET violin == TracksInOrder[1]
        cello == TracksInOrder[2]
        map == audioSettings.written
    IN /\ m_trackSoloMuteStateChanged.op = "read"
       /\ m_trackSoloMuteStateChanged.ret = "Ok"
       /\ map[violin].stored /\ map[violin].state.hasCustomVolume
       /\ map[violin].state.volumeDb = -6 /\ map[violin].state.balance = 5
       /\ map[violin].state.mute
       /\ map[cello].stored /\ ~map[cello].state.hasCustomVolume
       /\ map[cello].state.volumeDb = -6 /\ map[cello].state.solo
       /\ m_trackSoloMuteStatesMap[violin] = map[violin]
       /\ m_trackSoloMuteStatesMap[cello].state = [map[cello].state EXCEPT !.volumeDb = 0]

\* MixerChannel::resetToMaster and the excerpt's solo/mute store

\* the contexts a channel can find: none; no score open; the master score or
\* its excerpt current, with the master's part list and, for each part,
\* whether the excerpt has it and shows it
GlobalContexts ==
    {NoGlobalContext}
        \cup [resolved : {TRUE}, current : {"none"}, masterParts : {<<>>},
              excerptParts : {[partId \in PartIds |-> "absent"]}]
        \cup [resolved : {TRUE}, current : {"master", "excerpt"},
              masterParts : {<<1>>, <<1, 2>>},
              excerptParts : [PartIds -> {"absent", "hidden", "visible"}]]

\* the states set in the excerpt from elsewhere
StatesSetElsewhere ==
    {[mute |-> TRUE, solo |-> FALSE, hasCustomVolume |-> FALSE, volumeDb |-> 0, balance |-> 0],
     [mute |-> FALSE, solo |-> TRUE, hasCustomVolume |-> TRUE, volumeDb |-> -6, balance |-> 5]}

\* Part::instrumentTrackIdSet, in order
instrumentTrackIdSet(partId) ==
    SelectSeq(TracksInOrder, LAMBDA trackId : trackId.partId = partId)

\* line 1375 with hidden parts left to sound
ShouldMute_AbsentOnly(excerptParts, partId) == excerptParts[partId] = "absent"

\* line 1375: shouldMute = !excerptPart || !excerptPart->isVisible()
ShouldMute(excerptParts, partId) ==
    excerptParts[partId] = "absent" \/ excerptParts[partId] = "hidden"

\* part_000 lines 158-173, on a map: the map after clearAllStates and the
\* notifications sent
AfterClearAllStates(map) ==
    LET trackIds == SelectSeq(TracksInOrder, LAMBDA trackId : map[trackId].stored)
    IN [map |-> [trackId \in InstrumentTrackIds |-> NotStored],
        sent |-> [i \in 1..Len(trackIds) |->
                     [trackId |-> trackIds[i], state |-> DefaultSoloMuteState]]]

\* part_000 lines 122-148, on a map: the map after setTrackSoloMuteState and
\* the notifications sent so far
AfterSetTrackSoloMuteState(store, trackId, state) ==
    LET it == store.map[trackId]
    IN IF it.stored /\ it.state = state
       THEN store
       ELSE [map |-> [store.map EXCEPT ![trackId] = [stored |-> TRUE, state |-> state]],
             sent |-> store.sent \o (IF ShouldSignal(it, state)
                                     THEN <<[trackId |-> trackId, state |-> state]>>
                                     ELSE <<>>)]

\* lines 1382-1384: the state is set for every track of the part
RECURSIVE SetForTracks(_, _, _)
SetForTracks(store, trackIds, state) ==
    IF trackIds = <<>> THEN store
    ELSE SetForTracks(AfterSetTrackSoloMuteState(store, Head(trackIds), state),
                      Tail(trackIds), state)

\* lines 1373-1385: the loop over the master's parts
RECURSIVE ReInitialized(_, _, _)
ReInitialized(store, partList, excerptParts) ==
    IF partList = <<>> THEN store
    ELSE LET masterPart == Head(partList)
             state == [DefaultSoloMuteState EXCEPT
                          !.mute = ShouldMute(excerptParts, masterPart),
                          !.solo = FALSE]
         IN ReInitialized(SetForTracks(store, instrumentTrackIdSet(masterPart), state),
                          Tail(partList), excerptParts)

\* lines 1336-1388. A notation gives its solo/mute store and its parts (the
\* returns of lines 1356-1358 and 1369-1371 are not taken).
resetToMaster ==
    /\ Returned
    /\ IF \/ ~globalContext.resolved
          \/ globalContext.current = "none"
          \/ globalContext.current = "master"
       THEN UNCHANGED <<m_trackSoloMuteStatesMap, m_trackSoloMuteStateChanged, mixer>>
       ELSE LET store == ReInitialized(AfterClearAllStates(m_trackSoloMuteStatesMap),
                                       globalContext.masterParts,
                                       globalContext.excerptParts)
            IN /\ m_trackSoloMuteStatesMap' = store.map
               /\ m_trackSoloMuteStateChanged' =
                      [op |-> "resetToMaster", trackId |-> [partId |-> 0, instrumentId |-> ""],
                       state |-> DefaultSoloMuteState, found |-> NotStored,
                       sent |-> store.sent, pending |-> <<>>,
                       had |-> {trackId \in InstrumentTrackIds :
                                   trackSoloMuteStateExists(trackId)},
                       ret |-> "void"]
               /\ mixer' = [mixer EXCEPT !.m_outputParamsValid = FALSE]
    /\ out' = [op |-> "resetToMaster", arg |-> <<>>, ret |-> "void", sent |-> "nothing"]
    /\ UNCHANGED <<audioSettings, globalContext, env, sounds, async, audio,
                   build, other, wrappers, channels, cache, handedOut>>

\* a score is opened or closed, the excerpt or the master is made current,
\* a part is added to the excerpt, removed from it, shown or hidden
ContextChanged ==
    /\ \E context \in GlobalContexts : globalContext' = context
    /\ UNCHANGED <<m_trackSoloMuteStatesMap, m_trackSoloMuteStateChanged, audioSettings,
                   beyondSoloMute>>

\* a state of the excerpt is set from elsewhere
SetInExcerpt ==
    /\ Returned
    /\ \E trackId \in InstrumentTrackIds, state \in StatesSetElsewhere :
          setTrackSoloMuteState(trackId, state)

ResetNext ==
    \/ resetToMaster
    \/ ContextChanged
    \/ SetInExcerpt
    \/ OutputParamsResolved
    \/ OutputParamsChanged

ResetSpec == ChannelInit /\ [][ResetNext]_vars

\* the part is one of the master's parts
IsMasterPart(partId) ==
    \E i \in 1..Len(globalContext.masterParts) : globalContext.masterParts[i] = partId

C33_MasterWitness ==
    /\ out.op = "resetToMaster"
    /\ globalContext.current = "master"
    /\ m_trackSoloMuteStateChanged.op = "setTrackSoloMuteState"
    /\ m_trackSoloMuteStatesMap[TracksInOrder[1]].stored
    /\ mixer.m_outputParamsValid

====
